---- MODULE Spec2Model ----
(***************************************************************************)
(* Model of the health-tracker dashboard aggregation engine               *)
(* (app/routers/data.py) over the daily_data table                        *)
(* (app/database/dailyData.py).                                           *)
(*                                                                         *)
(* Dates are day numbers; day 0 is Monday 2024-01-01.  A nullable column  *)
(* holds NULL (the empty sequence) or Some(v) (a one-element sequence),   *)
(* so that NULL, 0, FALSE and "None" stay distinct.  The table is a set   *)
(* of rows keyed by date.  The operations are the two handlers (GET        *)
(* /data/dashboard, GET /missing-data) and a call of each of the six       *)
(* reducers; a call ends by returning a value or by raising.  The          *)
(* handlers are also run query by query, each request in a database        *)
(* session of its own, so that requests interleave.  The authentication   *)
(* middleware (app/middleware.py) is modelled over a table of user names   *)
(* and requests that carry tokens in a cookie or a header.                 *)
(***************************************************************************)
EXTENDS Integers, Sequences, FiniteSets, TLC

VARIABLES store, today, request, response, sessions, users, http, loop

vars ==
    <<store, today, request, response, sessions, users, http, loop>>

(***************************************************************************)
(* Bounds of the model.                                                    *)
(***************************************************************************)
\* number of consecutive dates, ending today, on which the dense histories
\* may hold a row
DenseDays == 4
\* largest number of rows of a sparse history
MaxSparseRows == 2
\* number of consecutive dates, ending today, on which the histories of the
\* missing-data scan may hold a row
MissingDays == 5
\* the histories whose missing days are rendered start at most this many
\* days before today, so that their dates cover every day of a month
FormatSpan == 37
\* number of clients whose requests may be in flight at the same time
MaxClients == 2

(***************************************************************************)
(* Nullable values.                                                        *)
(***************************************************************************)
NULL == <<>>
Some(v) == <<v>>
IsNull(x) == x = NULL
Val(x) == x[1]
\* Python's `x or 0` on a nullable integer
OrZero(x) == IF IsNull(x) THEN 0 ELSE Val(x)

(***************************************************************************)
(* The daily_data row: the primary key and the nullable columns that the  *)
(* class DailyData declares.  The class declares physio_completed but no  *)
(* physio_active column.                                                   *)
(***************************************************************************)
DailyData(d) ==
    [date |-> d,
     calories_green_goal |-> NULL, calories_green_actual |-> NULL,
     calories_yellow_goal |-> NULL, calories_yellow_actual |-> NULL,
     calories_orange_goal |-> NULL, calories_orange_actual |-> NULL,
     steps_goal |-> NULL, steps_actual |-> NULL,
     cardio_high_intensity_minutes |-> NULL,
     cardio_low_intensity_minutes |-> NULL,
     strength_workout_type |-> NULL,
     physio_completed |-> NULL,
     weight_kg |-> NULL]

\* the attributes that the class DailyData declares as columns
DeclaredColumns ==
    {"date",
     "calories_green_goal", "calories_green_actual",
     "calories_yellow_goal", "calories_yellow_actual",
     "calories_orange_goal", "calories_orange_actual",
     "steps_goal", "steps_actual",
     "cardio_high_intensity_minutes", "cardio_low_intensity_minutes",
     "strength_workout_type",
     "physio_completed",
     "weight_kg"}

\* the outcome of a call that raises: evaluating DailyData.<name> for a name
\* the class does not declare raises AttributeError, which no reducer and
\* no handler catches
AttributeError == [raised |-> "AttributeError"]
Raised(result) == result = AttributeError

\* minutes of cardio that make a day count towards a cardio streak
CardioStreakMinutes == 15
\* divisor of the weekly step averages
WeekDivisor == 7
\* distance from yesterday back to the first day of a 7-day window
WindowSpan == 6

(***************************************************************************)
(* Query helpers (SQLAlchemy queries used by the reducers).                *)
(***************************************************************************)
\* db.query(...).filter(DailyData.date == d).first(): NULL or Some(row)
RowAt(db, d) ==
    IF \E r \in db : r.date = d
    THEN Some(CHOOSE r \in db : r.date = d)
    ELSE NULL

\* .filter(DailyData.date.between(a, b))
Between(db, a, b) == {r \in db : a <= r.date /\ r.date <= b}

\* .order_by(DailyData.date).all(): the rows as a sequence, ascending by date
RECURSIVE OrderByDate(_)
OrderByDate(rows) ==
    IF rows = {} THEN <<>>
    ELSE LET first == CHOOSE r \in rows : \A q \in rows : r.date <= q.date
         IN <<first>> \o OrderByDate(rows \ {first})

\* func.sum(column) over rows: NULL when no row has a non-NULL value
RECURSIVE SumColumn(_, _)
SumColumn(rows, col) ==
    LET present == {r \in rows : ~IsNull(r[col])}
    IN IF present = {} THEN NULL
       ELSE LET r == CHOOSE q \in present : TRUE
                rest == SumColumn(present \ {r}, col)
            IN Some(Val(r[col]) + OrZero(rest))

\* fault-injected variant: the window starts one day earlier
get_8_days_before_date(t) ==
    LET yesterday == t - 1
        start_date == yesterday - WindowSpan - 1
    IN <<start_date, yesterday>>

\* get_7_days_before_date(today): <<start_date, end_date>>
get_7_days_before_date(t) ==
    LET yesterday == t - 1
        start_date == yesterday - WindowSpan
    IN <<start_date, yesterday>>

(***************************************************************************)
(* get_steps_dashboard_data                                                *)
(***************************************************************************)
\* fault-injected variant: an average of 0 is reported as 0
steps_window_average_zero_kept(db, start_date, end_date) ==
    LET window_sum == SumColumn(Between(db, start_date, end_date), "steps_actual")
        avg_num == IF ~IsNull(window_sum) THEN Val(window_sum) ELSE 0
    IN Some([num |-> avg_num, den |-> WeekDivisor])

\* fault-injected variant: the sum is divided by the number of rows that
\* hold a step count
steps_window_average_by_count(db, start_date, end_date) ==
    LET window_sum == SumColumn(Between(db, start_date, end_date), "steps_actual")
        avg_num == IF ~IsNull(window_sum) THEN Val(window_sum) ELSE 0
        days == Cardinality({r \in Between(db, start_date, end_date) :
                               ~IsNull(r.steps_actual)})
    IN IF avg_num # 0 THEN Some([num |-> avg_num, den |-> days]) ELSE NULL

\* the weekly average of one window: sum / 7, or 0 when the sum is NULL,
\* then `float(avg) if avg else None`.  The quotient is kept as a fraction.
steps_window_average(db, start_date, end_date) ==
    LET window_sum == SumColumn(Between(db, start_date, end_date), "steps_actual")
        avg_num == IF ~IsNull(window_sum) THEN Val(window_sum) ELSE 0
    IN IF avg_num # 0 THEN Some([num |-> avg_num, den |-> WeekDivisor]) ELSE NULL

\* fault-injected variant: the rows are ordered ascending
steps_lowest_candidates(db) ==
    LET present == {r \in db : ~IsNull(r.steps_actual)}
    IN {r \in present :
          \A q \in present : Val(r.steps_actual) <= Val(q.steps_actual)}

\* rows that .order_by(steps_actual.desc()).first() may return
steps_highest_candidates(db) ==
    LET present == {r \in db : ~IsNull(r.steps_actual)}
    IN {r \in present :
          \A q \in present : Val(q.steps_actual) <= Val(r.steps_actual)}

\* fault-injected variant: the goal must be exceeded, not merely met
RECURSIVE steps_current_streak_strict(_, _, _)
steps_current_streak_strict(db, check_date, current_streak) ==
    LET day_data == RowAt(db, check_date)
    IN IF IsNull(day_data) \/ IsNull(Val(day_data).steps_actual)
          \/ IsNull(Val(day_data).steps_goal)
       THEN current_streak
       ELSE IF Val(Val(day_data).steps_actual) > Val(Val(day_data).steps_goal)
            THEN steps_current_streak_strict(db, check_date - 1,
                                             current_streak + 1)
            ELSE current_streak

\* the `while True` loop of the current streak, from check_date backwards
RECURSIVE steps_current_streak(_, _, _)
steps_current_streak(db, check_date, current_streak) ==
    LET day_data == RowAt(db, check_date)
    IN IF IsNull(day_data) \/ IsNull(Val(day_data).steps_actual)
          \/ IsNull(Val(day_data).steps_goal)
       THEN current_streak
       ELSE IF Val(Val(day_data).steps_actual) >= Val(Val(day_data).steps_goal)
            THEN steps_current_streak(db, check_date - 1, current_streak + 1)
            ELSE current_streak

\* the state of a forward longest-streak scan before the first row
ScanStart ==
    [longest_streak |-> 0, longest_streak_end_date |-> NULL,
     current_streak_count |-> 0, previous_date |-> NULL]

\* fault-injected variant: a gap between stored dates is never noticed
GapBefore_never(scan, day_data) == FALSE

\* `if previous_date and (day_data.date - previous_date).days > 1`
GapBefore(scan, day_data) ==
    ~IsNull(scan.previous_date) /\ day_data.date - Val(scan.previous_date) > 1

\* fault-injected variant: the maximum is compared before the row is counted
ScanCount_before_increment(scan, count, day_data) ==
    [longest_streak |->
        IF count > scan.longest_streak THEN count
        ELSE scan.longest_streak,
     longest_streak_end_date |->
        IF count > scan.longest_streak THEN Some(day_data.date)
        ELSE scan.longest_streak_end_date,
     current_streak_count |-> count + 1,
     previous_date |-> Some(day_data.date)]

\* a qualifying row: count it and record a new maximum
ScanCount(scan, count, day_data) ==
    [longest_streak |->
        IF count + 1 > scan.longest_streak THEN count + 1
        ELSE scan.longest_streak,
     longest_streak_end_date |->
        IF count + 1 > scan.longest_streak THEN Some(day_data.date)
        ELSE scan.longest_streak_end_date,
     current_streak_count |-> count + 1,
     previous_date |-> Some(day_data.date)]

\* a row that leaves the best streak alone and sets the running count
ScanSet(scan, count, day_data) ==
    [scan EXCEPT !.current_streak_count = count,
                 !.previous_date = Some(day_data.date)]

\* fault-injected variant: a day below its goal keeps the running count
steps_longest_step_keeps_count(scan, day_data) ==
    LET count == IF GapBefore(scan, day_data) THEN 0
                 ELSE scan.current_streak_count
    IN IF ~IsNull(day_data.steps_actual) /\ ~IsNull(day_data.steps_goal)
          /\ Val(day_data.steps_actual) >= Val(day_data.steps_goal)
       THEN ScanCount(scan, count, day_data)
       ELSE ScanSet(scan, count, day_data)

\* one iteration of the steps longest-streak loop
steps_longest_step(scan, day_data) ==
    LET count == IF GapBefore(scan, day_data) THEN 0
                 ELSE scan.current_streak_count
    IN IF ~IsNull(day_data.steps_actual) /\ ~IsNull(day_data.steps_goal)
          /\ Val(day_data.steps_actual) >= Val(day_data.steps_goal)
       THEN ScanCount(scan, count, day_data)
       ELSE ScanSet(scan, 0, day_data)

RECURSIVE steps_longest_scan(_, _, _)
steps_longest_scan(all_steps_data, i, scan) ==
    IF i > Len(all_steps_data) THEN scan
    ELSE steps_longest_scan(all_steps_data, i + 1,
                            steps_longest_step(scan, all_steps_data[i]))

\* fault-injected variant: the end date is the date of the last row scanned
longest_streak_info_last_row(scan) ==
    [streak |-> scan.longest_streak, end_date |-> scan.previous_date]

\* longest_streak_info: the end date is None when no row was ever counted
longest_streak_info(scan) ==
    [streak |-> scan.longest_streak, end_date |-> scan.longest_streak_end_date]

get_steps_dashboard_data(db, t, max_steps_data) ==
    LET yesterday == t - 1
        yesterday_data == RowAt(db, yesterday)
        last_7 == get_7_days_before_date(t)
        prev_7 == get_7_days_before_date(last_7[1])
    IN [yesterday |->
          [actual |-> IF ~IsNull(yesterday_data)
                      THEN Val(yesterday_data).steps_actual ELSE NULL,
           goal |-> IF ~IsNull(yesterday_data)
                    THEN Val(yesterday_data).steps_goal ELSE NULL],
        averages |->
          [last_7_days |-> steps_window_average(db, last_7[1], last_7[2]),
           previous_7_days |-> steps_window_average(db, prev_7[1], prev_7[2])],
        highest |->
          [steps |-> IF ~IsNull(max_steps_data)
                     THEN Val(max_steps_data).steps_actual ELSE NULL,
           date |-> IF ~IsNull(max_steps_data)
                    THEN Some(Val(max_steps_data).date) ELSE NULL],
        current_streak |-> steps_current_streak(db, yesterday, 0),
        longest_streak |->
          longest_streak_info(steps_longest_scan(OrderByDate(db), 1, ScanStart))]

(***************************************************************************)
(* get_cardio_dashboard_data                                               *)
(***************************************************************************)
\* (low or 0) + (high or 0)
total_minutes(day_data) ==
    OrZero(day_data.cardio_low_intensity_minutes)
    + OrZero(day_data.cardio_high_intensity_minutes)

\* fault-injected variant: a day needs more than 15 minutes
RECURSIVE cardio_current_streak_strict(_, _, _)
cardio_current_streak_strict(db, check_date, current_streak) ==
    LET day_data == RowAt(db, check_date)
    IN IF IsNull(day_data) THEN current_streak
       ELSE IF total_minutes(Val(day_data)) > CardioStreakMinutes
            THEN cardio_current_streak_strict(db, check_date - 1,
                                              current_streak + 1)
            ELSE current_streak

RECURSIVE cardio_current_streak(_, _, _)
cardio_current_streak(db, check_date, current_streak) ==
    LET day_data == RowAt(db, check_date)
    IN IF IsNull(day_data) THEN current_streak
       ELSE IF total_minutes(Val(day_data)) >= CardioStreakMinutes
            THEN cardio_current_streak(db, check_date - 1, current_streak + 1)
            ELSE current_streak

\* one iteration of the cardio longest-streak loop
cardio_longest_step(scan, day_data) ==
    LET count == IF GapBefore(scan, day_data) THEN 0
                 ELSE scan.current_streak_count
    IN IF total_minutes(day_data) >= CardioStreakMinutes
       THEN ScanCount(scan, count, day_data)
       ELSE ScanSet(scan, 0, day_data)

RECURSIVE cardio_longest_scan(_, _, _)
cardio_longest_scan(all_cardio_data, i, scan) ==
    IF i > Len(all_cardio_data) THEN scan
    ELSE cardio_longest_scan(all_cardio_data, i + 1,
                             cardio_longest_step(scan, all_cardio_data[i]))

\* fault-injected variant: the total is taken over the whole history
cardio_last_7_total_unfiltered(db, last_7_start, last_7_end, col) ==
    OrZero(SumColumn(db, col))

\* db.query(func.sum(column)).filter(date.between(...)).scalar() or 0
cardio_last_7_total(db, last_7_start, last_7_end, col) ==
    OrZero(SumColumn(Between(db, last_7_start, last_7_end), col))

get_cardio_dashboard_data(db, t) ==
    LET yesterday == t - 1
        last_7 == get_7_days_before_date(t)
    IN [last_7_days |->
          [low_intensity |->
             cardio_last_7_total(db, last_7[1], last_7[2],
                                 "cardio_low_intensity_minutes"),
           high_intensity |->
             cardio_last_7_total(db, last_7[1], last_7[2],
                                 "cardio_high_intensity_minutes")],
        current_streak |-> cardio_current_streak(db, yesterday, 0),
        longest_streak |->
          longest_streak_info(cardio_longest_scan(OrderByDate(db), 1, ScanStart))]

(***************************************************************************)
(* get_physio_dashboard_data                                               *)
(***************************************************************************)
RECURSIVE physio_current_streak(_, _, _)
physio_current_streak(db, check_date, current_streak) ==
    LET day_data == RowAt(db, check_date)
    IN IF IsNull(day_data) THEN current_streak
       ELSE IF Val(day_data).physio_active = Some(TRUE)
            THEN IF Val(day_data).physio_completed = Some(TRUE)
                 THEN physio_current_streak(db, check_date - 1,
                                            current_streak + 1)
                 ELSE current_streak
            ELSE physio_current_streak(db, check_date - 1, current_streak)

\* one iteration of the physio longest-streak loop
physio_longest_step(scan, day_data) ==
    LET count == IF GapBefore(scan, day_data) THEN 0
                 ELSE scan.current_streak_count
    IN IF day_data.physio_active = Some(TRUE)
          /\ day_data.physio_completed = Some(TRUE)
       THEN ScanCount(scan, count, day_data)
       ELSE IF day_data.physio_active = Some(TRUE)
            THEN ScanSet(scan, 0, day_data)
            ELSE ScanSet(scan, count, day_data)

RECURSIVE physio_longest_scan(_, _, _)
physio_longest_scan(all_physio_data, i, scan) ==
    IF i > Len(all_physio_data) THEN scan
    ELSE physio_longest_scan(all_physio_data, i + 1,
                             physio_longest_step(scan, all_physio_data[i]))

\* The first statement of the reducer evaluates DailyData.physio_active to
\* build its query; the attribute lookup raises when the class declares no
\* such column, before any row is read.
get_physio_dashboard_data(db, t) ==
    IF "physio_active" \notin DeclaredColumns THEN AttributeError
    ELSE
    LET yesterday == t - 1
        current_physio_data == RowAt(db, yesterday)
    IN [current_active |->
          IF ~IsNull(current_physio_data)
          THEN Val(current_physio_data).physio_active ELSE NULL,
        current_streak |-> physio_current_streak(db, yesterday, 0),
        longest_streak |->
          longest_streak_info(physio_longest_scan(OrderByDate(db), 1, ScanStart))]

(***************************************************************************)
(* get_calorie_dashboard_data, get_strength_dashboard_data,                *)
(* get_weight_dashboard_data                                               *)
(***************************************************************************)
WeekdayName ==
    <<"Monday", "Tuesday", "Wednesday", "Thursday", "Friday", "Saturday",
      "Sunday">>

\* DailyData.day_of_week: the weekday name of the row's date
day_of_week(d) == WeekdayName[(d % 7) + 1]

get_calorie_dashboard_data(db, t) ==
    LET range == get_7_days_before_date(t)
        calorie_data == OrderByDate(Between(db, range[1], range[2]))
    IN [i \in 1..Len(calorie_data) |->
          [date |-> calorie_data[i].date,
           day_of_week |-> day_of_week(calorie_data[i].date),
           calories_green_goal |-> calorie_data[i].calories_green_goal,
           calories_green_actual |-> calorie_data[i].calories_green_actual,
           calories_yellow_goal |-> calorie_data[i].calories_yellow_goal,
           calories_yellow_actual |-> calorie_data[i].calories_yellow_actual,
           calories_orange_goal |-> calorie_data[i].calories_orange_goal,
           calories_orange_actual |-> calorie_data[i].calories_orange_actual]]

\* fault-injected variant: the sentinel 'None' counts as a workout
HasWorkout_not_null(r) == ~IsNull(r.strength_workout_type)

\* strength_workout_type.isnot(None) and strength_workout_type != 'None'
HasWorkout(r) ==
    ~IsNull(r.strength_workout_type) /\ Val(r.strength_workout_type) # "None"

get_strength_dashboard_data(db, t) ==
    LET last_7 == get_7_days_before_date(t)
        all_strength_data == {r \in db : HasWorkout(r)}
        labels == {Val(r.strength_workout_type) :
                       r \in {q \in all_strength_data :
                                Val(q.strength_workout_type) # ""}}
    IN [last_7_days_count |->
          Cardinality({r \in Between(db, last_7[1], last_7[2]) : HasWorkout(r)}),
        workout_type_counts |->
          [w \in labels |->
             Cardinality({r \in all_strength_data :
                            Val(r.strength_workout_type) = w})]]

\* length of the weight window before its last date
WeightWindowSpan == 364

\* fault-injected variant: the window reaches back a full 365 days
weight_window_start_year(last_date) == last_date - (WeightWindowSpan + 1)

\* window_start = last_date - timedelta(days=364)
weight_window_start(last_date) == last_date - WeightWindowSpan

get_weight_dashboard_data(db) ==
    LET weighed == {r \in db : ~IsNull(r.weight_kg)}
    IN IF weighed = {} THEN [weight_history |-> <<>>]
       ELSE LET last_date ==
                    (CHOOSE r \in weighed :
                        \A q \in weighed : q.date <= r.date).date
                window_start == weight_window_start(last_date)
                all_weight_data ==
                    OrderByDate(Between(weighed, window_start, last_date))
            IN [weight_history |->
                  [i \in 1..Len(all_weight_data) |->
                     [date |-> all_weight_data[i].date,
                      weight_kg |-> Val(all_weight_data[i].weight_kg)]]]

\* get_dashboard_data: the six metric structures keyed by metric name.  The
\* dict display calls the reducers in order; a reducer that raises ends the
\* handler with that exception.
get_dashboard_data(db, t, max_steps_data) ==
    IF Raised(get_physio_dashboard_data(db, t)) THEN AttributeError
    ELSE [calories |-> get_calorie_dashboard_data(db, t),
          steps |-> get_steps_dashboard_data(db, t, max_steps_data),
          cardio |-> get_cardio_dashboard_data(db, t),
          strength |-> get_strength_dashboard_data(db, t),
          physio |-> get_physio_dashboard_data(db, t),
          weight |-> get_weight_dashboard_data(db)]

(***************************************************************************)
(* get_missing_data.  missing_days holds one entry per date of the        *)
(* deduplicated, sorted list of missing dates: its ISO date string and its *)
(* display name.                                                           *)
(***************************************************************************)
KnownScopes ==
    {"dashboard", "calories", "steps", "weight", "cardio", "strength",
     "physio"}

\* the scope strings a request may carry: the known ones and another one
Scopes == KnownScopes \cup {"sleep"}

\* the NULL filter of each scope's query
ScopeFilter(scope, r) ==
    CASE scope = "calories" ->
            \/ IsNull(r.calories_green_goal) \/ IsNull(r.calories_green_actual)
            \/ IsNull(r.calories_yellow_goal) \/ IsNull(r.calories_yellow_actual)
            \/ IsNull(r.calories_orange_goal) \/ IsNull(r.calories_orange_actual)
      [] scope = "steps" -> IsNull(r.steps_goal) \/ IsNull(r.steps_actual)
      [] scope = "weight" -> IsNull(r.weight_kg)
      [] scope = "cardio" ->
            \/ IsNull(r.cardio_high_intensity_minutes)
            \/ IsNull(r.cardio_low_intensity_minutes)
      [] scope = "strength" -> IsNull(r.strength_workout_type)
      [] scope = "physio" ->
            \/ IsNull(r.physio_active)
            \/ (r.physio_active = Some(TRUE) /\ IsNull(r.physio_completed))
      [] OTHER -> FALSE

\* min(dates[i..]) and max(dates[i..]) of a list of dates, given the least
\* and the greatest date seen before position i
RECURSIVE MinDate(_, _, _)
MinDate(dates, i, least) ==
    IF i > Len(dates) THEN least
    ELSE MinDate(dates, i + 1, IF dates[i] < least THEN dates[i] ELSE least)

RECURSIVE MaxDate(_, _, _)
MaxDate(dates, i, greatest) ==
    IF i > Len(dates) THEN greatest
    ELSE MaxDate(dates, i + 1,
                 IF dates[i] > greatest THEN dates[i] ELSE greatest)

\* list(s) for a Python set s: its elements in an order the language leaves
\* open; the result of the scan does not depend on it
RECURSIVE ListOfSet(_)
ListOfSet(dates) ==
    IF dates = {} THEN <<>>
    ELSE LET any == CHOOSE d \in dates : TRUE
         IN <<any>> \o ListOfSet(dates \ {any})

\* fault-injected variant: the loop stops one day early
all_dates_before(first_date, yesterday) == first_date..(yesterday - 1)

\* fault-injected variant: the loop runs up to today
all_dates_through_today(first_date, yesterday) == first_date..(yesterday + 1)

\* the `while current_date <= yesterday` loop that fills all_dates
all_dates_between(first_date, yesterday) == first_date..yesterday

\* fault-injected variant: the branches of the column scopes leave out the
\* dates that have no record
scope_missing_dates_without_absent(scope, missing_from_db, missing_completely) ==
    IF scope = "dashboard" THEN missing_completely
    ELSE IF scope \in KnownScopes
         THEN ListOfSet(missing_from_db)
         ELSE <<>>

\* fault-injected variant: a scope that is not known is treated like the
\* default scope "dashboard"
scope_missing_dates_default_dashboard(scope, missing_from_db, missing_completely) ==
    IF scope \in KnownScopes \ {"dashboard"}
    THEN ListOfSet(missing_from_db) \o missing_completely
    ELSE missing_completely

\* the if / elif / else chain over the scope: the list missing_dates before
\* it is deduplicated and sorted
scope_missing_dates(scope, missing_from_db, missing_completely) ==
    IF scope = "dashboard" THEN missing_completely
    ELSE IF scope \in KnownScopes
         THEN ListOfSet(missing_from_db) \o missing_completely
         ELSE <<>>

\* fault-injected variant: the list is returned as it was concatenated
sorted_unique_skipped(missing_dates) == missing_dates

\* sorted(list(set(missing_dates))): the distinct dates of the list in
\* ascending order
sorted_unique(missing_dates) ==
    IF missing_dates = <<>> THEN <<>>
    ELSE LET distinct == {missing_dates[i] : i \in 1..Len(missing_dates)}
             least == MinDate(missing_dates, 1, missing_dates[1])
             greatest == MaxDate(missing_dates, 1, missing_dates[1])
             Listed(d) == d \in distinct
         IN SelectSeq([i \in 1..(greatest - least + 1) |-> least + i - 1],
                      Listed)

\* The dates of the model are day numbers; a Python date carries a year, a
\* month and a day.  Day 0 is Monday 2024-01-01.
Epoch == [year |-> 2024, month |-> 1, day |-> 1]

is_leap(year) == (year % 4 = 0 /\ year % 100 # 0) \/ year % 400 = 0

days_in_month(year, month) ==
    IF month = 2 THEN (IF is_leap(year) THEN 29 ELSE 28)
    ELSE IF month \in {4, 6, 9, 11} THEN 30 ELSE 31

\* the date that lies offset days after the first day of a month
RECURSIVE date_from(_, _, _)
date_from(year, month, offset) ==
    IF offset < 0
    THEN LET prev_year == IF month = 1 THEN year - 1 ELSE year
             prev_month == IF month = 1 THEN 12 ELSE month - 1
         IN date_from(prev_year, prev_month,
                      offset + days_in_month(prev_year, prev_month))
    ELSE IF offset >= days_in_month(year, month)
    THEN date_from(IF month = 12 THEN year + 1 ELSE year,
                   IF month = 12 THEN 1 ELSE month + 1,
                   offset - days_in_month(year, month))
    ELSE [year |-> year, month |-> month, day |-> offset + 1]

\* d.year, d.month and d.day of the date with day number d
date_fields(d) == date_from(Epoch.year, Epoch.month, d)

\* calendar.month_name
month_name ==
    <<"January", "February", "March", "April", "May", "June", "July",
      "August", "September", "October", "November", "December">>

\* a number printed in at least two digits, as %m and %d print it
zero_pad(n) == IF n < 10 THEN "0" \o ToString(n) ELSE ToString(n)

\* d.strftime('%Y-%m-%d')
strftime_Ymd(d) ==
    LET f == date_fields(d)
    IN ToString(f.year) \o "-" \o zero_pad(f.month) \o "-" \o zero_pad(f.day)

\* fault-injected variant: the suffix follows the last digit alone
ordinal_suffix_by_last_digit(day_num) ==
    CASE day_num % 10 = 1 -> "st"
      [] day_num % 10 = 2 -> "nd"
      [] day_num % 10 = 3 -> "rd"
      [] OTHER -> "th"

\* the ordinal suffix of format_date
ordinal_suffix(day_num) ==
    IF 10 <= day_num % 100 /\ day_num % 100 <= 20 THEN "th"
    ELSE CASE day_num % 10 = 1 -> "st"
           [] day_num % 10 = 2 -> "nd"
           [] day_num % 10 = 3 -> "rd"
           [] OTHER -> "th"

\* format_date(d), the display name of a missing day
format_date(d) ==
    LET day_name == day_of_week(d)
        day_num == date_fields(d).day
        month_name_str == month_name[date_fields(d).month]
    IN day_name \o ", " \o ToString(day_num) \o ordinal_suffix(day_num)
          \o " " \o month_name_str

\* the list comprehension that renders the entries of the response
formatted_missing(missing_dates) ==
    [i \in 1..Len(missing_dates) |->
        [date |-> strftime_Ymd(missing_dates[i]),
         display_name |-> format_date(missing_dates[i])]]

\* The physio branch evaluates DailyData.physio_active to build its filter
\* and raises when the class declares no such column; the branch is reached
\* only when the table holds a row.
get_missing_data(db, t, scope) ==
    LET yesterday == t - 1
    IN IF db = {} THEN [missing_days |-> <<>>]
       ELSE IF scope = "physio" /\ "physio_active" \notin DeclaredColumns
       THEN AttributeError
       ELSE LET first_date ==
                    (CHOOSE r \in db : \A q \in db : r.date <= q.date).date
                all_dates == all_dates_between(first_date, yesterday)
                existing_dates == {r.date : r \in db}
                NotStored(d) == d \in all_dates /\ d \notin existing_dates
                missing_completely ==
                    SelectSeq([i \in 1..Cardinality(all_dates) |->
                                  first_date + i - 1], NotStored)
                missing_from_db ==
                    {r.date : r \in {q \in Between(db, first_date, yesterday) :
                                        ScopeFilter(scope, q)}}
                missing_dates ==
                    scope_missing_dates(scope, missing_from_db,
                                        missing_completely)
            IN [missing_days |->
                    formatted_missing(sorted_unique(missing_dates))]

(***************************************************************************)
(* Stored histories.  The aggregator only reads; the histories it may be   *)
(* run on are drawn from bounded families of tables.                       *)
(***************************************************************************)
\* the wall-clock date of the requests: late enough for both 7-day windows
\* and two earlier dates to be non-negative day numbers
Today == 2 * (WindowSpan + 1) + 2

DenseDates == (Today - DenseDays + 1)..Today
MissingDates == (Today - MissingDays + 1)..Today
AllDates == 0..Today

StepsRow(d, v) ==
    [DailyData(d) EXCEPT !.steps_goal = v[1], !.steps_actual = v[2]]
StepsVariants ==
    {<<NULL, NULL>>, <<NULL, Some(2)>>, <<Some(2), NULL>>,
     <<Some(2), Some(1)>>, <<Some(2), Some(2)>>, <<Some(2), Some(3)>>}

CardioRow(d, v) ==
    [DailyData(d) EXCEPT !.cardio_low_intensity_minutes = v[1],
                         !.cardio_high_intensity_minutes = v[2]]
CardioVariants == {NULL, Some(7), Some(15)} \X {NULL, Some(7)}

PhysioRow(d, v) == [DailyData(d) EXCEPT !.physio_completed = v[1]]
PhysioVariants == {<<Some(TRUE)>>, <<Some(FALSE)>>, <<NULL>>}

\* the dates that f does not map to the empty tuple: the dates with a row
Present(f) == {d \in DOMAIN f : f[d] # <<>>}

\* dense step, cardio or physio histories: each of the DenseDays dates up
\* to today has no row or a row of one of the variants
StreakHistory(db) ==
    \/ \E f \in [DenseDates -> StepsVariants \cup {<<>>}] :
          db = {StepsRow(d, f[d]) : d \in Present(f)}
    \/ \E f \in [DenseDates -> CardioVariants \cup {<<>>}] :
          db = {CardioRow(d, f[d]) : d \in Present(f)}
    \/ \E f \in [DenseDates -> PhysioVariants \cup {<<>>}] :
          db = {PhysioRow(d, f[d]) : d \in Present(f)}

\* a row with every column filled in
CompleteRow(d) ==
    [date |-> d,
     calories_green_goal |-> Some(1), calories_green_actual |-> Some(1),
     calories_yellow_goal |-> Some(1), calories_yellow_actual |-> Some(1),
     calories_orange_goal |-> Some(1), calories_orange_actual |-> Some(1),
     steps_goal |-> Some(2), steps_actual |-> Some(2),
     cardio_high_intensity_minutes |-> Some(7),
     cardio_low_intensity_minutes |-> Some(15),
     strength_workout_type |-> Some("Push"),
     physio_completed |-> Some(TRUE),
     weight_kg |-> Some(70)]

\* complete rows in which the columns of one scope take every combination
\* of NULL and values
ProbeRows(d) ==
    {[CompleteRow(d) EXCEPT !.calories_green_goal = v[1],
                            !.calories_green_actual = v[2],
                            !.calories_yellow_goal = v[3],
                            !.calories_yellow_actual = v[4],
                            !.calories_orange_goal = v[5],
                            !.calories_orange_actual = v[6]] :
        v \in [1..6 -> {NULL, Some(1)}]}
    \cup {[CompleteRow(d) EXCEPT !.steps_goal = v[1], !.steps_actual = v[2]] :
            v \in {NULL, Some(2)} \X {NULL, Some(2)}}
    \cup {[CompleteRow(d) EXCEPT !.cardio_low_intensity_minutes = v[1],
                                 !.cardio_high_intensity_minutes = v[2]] :
            v \in {NULL, Some(15)} \X {NULL, Some(7)}}
    \cup {[CompleteRow(d) EXCEPT !.physio_completed = v] :
            v \in {NULL, Some(TRUE), Some(FALSE)}}
    \cup {[CompleteRow(d) EXCEPT !.weight_kg = v] : v \in {NULL, Some(70)}}
    \cup {[CompleteRow(d) EXCEPT !.strength_workout_type = v] :
            v \in {NULL, Some("None"), Some("Push")}}

\* one probe row among dates that have no row or a complete row; or the
\* empty table
MissingHistory(db) ==
    \/ db = {}
    \/ \E pd \in MissingDates :
          \E rest \in SUBSET (MissingDates \ {pd}) :
             \E p \in ProbeRows(pd) :
                db = {p} \cup {CompleteRow(d) : d \in rest}

\* a first row of NULLs up to FormatSpan days before today, with or without
\* complete rows dated yesterday and today
FormatHistory(db) ==
    \E first_date \in (Today - FormatSpan)..(Today - 2) :
       \E rest \in SUBSET {Today - 1, Today} :
          db = {DailyData(first_date)} \cup {CompleteRow(d) : d \in rest}

\* rows dated 3 days and 1 day before today, each absent, complete, without
\* a step count or without a weight
SessionHistory(db) ==
    \E f \in [{Today - 3, Today - 1} ->
                 {"none", "complete", "no_steps", "no_weight"}] :
       db = {CASE f[d] = "complete" -> CompleteRow(d)
               [] f[d] = "no_steps" ->
                     [CompleteRow(d) EXCEPT !.steps_actual = NULL]
               [] f[d] = "no_weight" ->
                     [CompleteRow(d) EXCEPT !.weight_kg = NULL] :
                d \in {e \in {Today - 3, Today - 1} : f[e] # "none"}}

\* a complete row, which meets the steps goal and the cardio minimum, or a
\* row that falls short of one of them or holds NULL there
LoopKinds ==
    {"complete", "steps_short", "steps_null", "cardio_short", "cardio_null"}

LoopRow(d, kind) ==
    CASE kind = "complete" -> CompleteRow(d)
      [] kind = "steps_short" ->
            [CompleteRow(d) EXCEPT !.steps_actual = Some(1)]
      [] kind = "steps_null" -> [CompleteRow(d) EXCEPT !.steps_actual = NULL]
      [] kind = "cardio_short" ->
            [CompleteRow(d) EXCEPT !.cardio_low_intensity_minutes = Some(7)]
      [] kind = "cardio_null" ->
            [CompleteRow(d) EXCEPT !.cardio_low_intensity_minutes = NULL,
                                   !.cardio_high_intensity_minutes = NULL]

\* dense histories of such rows: each of the DenseDays dates up to today
\* has no row or one of them
LoopHistory(db) ==
    \E dates \in SUBSET DenseDates :
       \E f \in [dates -> LoopKinds] :
          db = {LoopRow(d, f[d]) : d \in dates}

\* at most MaxSparseRows rows anywhere between day 0 and today, holding
\* only a step count (pick lists the dates in ascending order, -1 for none)
SparseStepsValues == {NULL, Some(0), Some(1000), Some(2000)}
SparseHistory(db) ==
    \E pick \in [1..MaxSparseRows -> AllDates \cup {-1}] :
       /\ \A i, j \in 1..MaxSparseRows :
             (i < j /\ pick[i] >= 0) => pick[i] < pick[j]
       /\ \E v \in [1..MaxSparseRows -> SparseStepsValues] :
             db = {[DailyData(pick[i]) EXCEPT !.steps_actual = v[i]] :
                      i \in {j \in 1..MaxSparseRows : pick[j] >= 0}}

\* a row on each of the 7 days up to yesterday, holding only a step count
FullWeekHistory(db) ==
    \E f \in [(Today - 1 - WindowSpan)..(Today - 1) ->
                 {NULL, Some(1000), Some(2000)}] :
       db = {[DailyData(d) EXCEPT !.steps_actual = f[d]] : d \in DOMAIN f}

AverageHistory(db) == SparseHistory(db) \/ FullWeekHistory(db)

\* the dates around the ends of the weight window for a last weight dated
\* yesterday, today or tomorrow; each has no row or a row holding only a
\* weight, which may be NULL
WeightDates ==
    {Today - WeightWindowSpan - 2, Today - WeightWindowSpan - 1,
     Today - WeightWindowSpan, Today - WeightWindowSpan + 1,
     Today - 1, Today, Today + 1}
WeightVariants == {<<NULL>>, <<Some(70)>>, <<Some(71)>>}
WeightHistory(db) ==
    \E f \in [WeightDates -> WeightVariants \cup {<<>>}] :
       db = {[DailyData(d) EXCEPT !.weight_kg = f[d][1]] : d \in Present(f)}

\* the day before the 7-day window, its first day, its last two days and
\* today; each has no row or a row holding only a workout type: NULL, the
\* sentinel 'None', the empty string or a label
StrengthDates ==
    {Today - WindowSpan - 2, Today - WindowSpan - 1, Today - 2, Today - 1,
     Today}
StrengthVariants ==
    {<<NULL>>, <<Some("None")>>, <<Some("")>>, <<Some("Push")>>,
     <<Some("Pull")>>}
StrengthHistory(db) ==
    \E f \in [StrengthDates -> StrengthVariants \cup {<<>>}] :
       db = {[DailyData(d) EXCEPT !.strength_workout_type = f[d][1]] :
                d \in Present(f)}

\* the day before the 7-day window, the 7 days of the window and today;
\* each has no row or a row holding only calorie values (<<green goal,
\* green actual, yellow goal, yellow actual, orange goal, orange actual>>)
CalorieDates == (Today - WindowSpan - 2)..Today
CalorieVariants ==
    {<<Some(1800), Some(1700), Some(300), Some(0), Some(100), Some(150)>>,
     <<NULL, Some(1500), NULL, NULL, Some(200), NULL>>}
CalorieRow(d, v) ==
    [DailyData(d) EXCEPT !.calories_green_goal = v[1],
                         !.calories_green_actual = v[2],
                         !.calories_yellow_goal = v[3],
                         !.calories_yellow_actual = v[4],
                         !.calories_orange_goal = v[5],
                         !.calories_orange_actual = v[6]]
CalorieHistory(db) ==
    \E f \in [CalorieDates -> CalorieVariants \cup {<<>>}] :
       db = {CalorieRow(d, f[d]) : d \in Present(f)}

\* a row on each of the 7 days up to yesterday, holding only cardio minutes
\* (<<low, high>>); or at most MaxSparseRows rows anywhere between day 0 and
\* today, holding only cardio minutes
CardioWeekVariants ==
    {<<Some(10), NULL>>, <<NULL, Some(5)>>, <<Some(20), NULL>>, <<NULL, NULL>>}
CardioSparseVariants == {NULL, Some(10)} \X {NULL, Some(5)}
CardioTotalsHistory(db) ==
    \/ \E f \in [(Today - 1 - WindowSpan)..(Today - 1) -> CardioWeekVariants] :
          db = {CardioRow(d, f[d]) : d \in DOMAIN f}
    \/ \E pick \in [1..MaxSparseRows -> AllDates \cup {-1}] :
          /\ \A i, j \in 1..MaxSparseRows :
                (i < j /\ pick[i] >= 0) => pick[i] < pick[j]
          /\ \E v \in [1..MaxSparseRows -> CardioSparseVariants] :
                db = {CardioRow(pick[i], v[i]) :
                         i \in {j \in 1..MaxSparseRows : pick[j] >= 0}}

(***************************************************************************)
(* Operations.  response holds the outcome of the last operation: the     *)
(* body a handler answered with or the value a reducer returned, or the   *)
(* exception that ended it.                                                *)
(***************************************************************************)
NoRequest == [op |-> "none", scope |-> ""]
NoResponse == [op |-> "none", scope |-> "", raised |-> "", body |-> <<>>]

\* the outcome of an operation that returned value
Returns(op, scope, value) ==
    [op |-> op, scope |-> scope, raised |-> "", body |-> value]

\* the outcome of an operation whose result is a dict or an exception: an
\* exception reaches the caller (for a handler, as a server error) and no
\* body is delivered
Outcome(op, scope, result) ==
    IF Raised(result)
    THEN [op |-> op, scope |-> scope, raised |-> result.raised, body |-> <<>>]
    ELSE Returns(op, scope, result)

\* a client sends GET /data/dashboard; the response of the previous
\* request has been delivered
SendDashboardRequest ==
    /\ request = NoRequest
    /\ request' = [op |-> "dashboard", scope |-> ""]
    /\ response' = NoResponse
    /\ UNCHANGED <<store, today, sessions, users, http, loop>>

\* a client sends GET /missing-data?scope=...
SendMissingDataRequest ==
    /\ request = NoRequest
    /\ \E scope \in Scopes : request' = [op |-> "missing", scope |-> scope]
    /\ response' = NoResponse
    /\ UNCHANGED <<store, today, sessions, users, http, loop>>

\* GET /data/dashboard
GetDashboardData ==
    /\ request.op = "dashboard"
    /\ \E max_steps_data \in
          IF steps_highest_candidates(store) = {} THEN {NULL}
          ELSE {Some(r) : r \in steps_highest_candidates(store)} :
        response' = Outcome("dashboard", "",
                            get_dashboard_data(store, today, max_steps_data))
    /\ request' = NoRequest
    /\ UNCHANGED <<store, today, sessions, users, http, loop>>

\* GET /missing-data
GetMissingData ==
    /\ request.op = "missing"
    /\ response' = Outcome("missing", request.scope,
                           get_missing_data(store, today, request.scope))
    /\ request' = NoRequest
    /\ UNCHANGED <<store, today, sessions, users, http, loop>>

\* a call of get_calorie_dashboard_data(db)
Call_get_calorie_dashboard_data ==
    /\ request = NoRequest
    /\ response' = Returns("get_calorie_dashboard_data", "",
                           get_calorie_dashboard_data(store, today))
    /\ UNCHANGED <<store, today, request, sessions, users, http, loop>>

\* a call of get_steps_dashboard_data(db)
Call_get_steps_dashboard_data ==
    /\ request = NoRequest
    /\ \E max_steps_data \in
          IF steps_highest_candidates(store) = {} THEN {NULL}
          ELSE {Some(r) : r \in steps_highest_candidates(store)} :
        response' = Returns("get_steps_dashboard_data", "",
                            get_steps_dashboard_data(store, today,
                                                     max_steps_data))
    /\ UNCHANGED <<store, today, request, sessions, users, http, loop>>

\* a call of get_cardio_dashboard_data(db)
Call_get_cardio_dashboard_data ==
    /\ request = NoRequest
    /\ response' = Returns("get_cardio_dashboard_data", "",
                           get_cardio_dashboard_data(store, today))
    /\ UNCHANGED <<store, today, request, sessions, users, http, loop>>

\* a call of get_strength_dashboard_data(db)
Call_get_strength_dashboard_data ==
    /\ request = NoRequest
    /\ response' = Returns("get_strength_dashboard_data", "",
                           get_strength_dashboard_data(store, today))
    /\ UNCHANGED <<store, today, request, sessions, users, http, loop>>

\* a call of get_physio_dashboard_data(db)
Call_get_physio_dashboard_data ==
    /\ request = NoRequest
    /\ response' = Outcome("get_physio_dashboard_data", "",
                           get_physio_dashboard_data(store, today))
    /\ UNCHANGED <<store, today, request, sessions, users, http, loop>>

\* a call of get_weight_dashboard_data(db)
Call_get_weight_dashboard_data ==
    /\ request = NoRequest
    /\ response' = Returns("get_weight_dashboard_data", "",
                           get_weight_dashboard_data(store))
    /\ UNCHANGED <<store, today, request, sessions, users, http, loop>>

(***************************************************************************)
(* The handlers query by query.  FastAPI resolves Depends(get_db) for each *)
(* request: get_db opens a session, the handler runs its queries on it,    *)
(* and get_db closes the session in its finally clause once the handler    *)
(* has returned or raised.  A handler keeps what it has read in local      *)
(* variables.                                                              *)
(***************************************************************************)
Clients == 1..MaxClients

\* the scope strings the clients send
ClientScopes == {"dashboard", "steps", "weight", "physio", "sleep"}

\* the local variables of a handler before it has assigned them
NoLocals ==
    [parts |-> <<>>, first_date |-> 0, missing_from_db |-> {},
     existing_dates |-> {}]

\* a client without a request
IdleSession ==
    [op |-> "none", scope |-> "", pc |-> "idle", db_open |-> FALSE,
     raised |-> "", body |-> <<>>, locals |-> NoLocals]

\* the order in which get_dashboard_data evaluates the entries of its dict
NextReducer ==
    [calories |-> "steps", steps |-> "cardio", cardio |-> "strength",
     strength |-> "physio", physio |-> "weight", weight |-> "return"]

\* fault-injected variant: all requests work on the same local variables
locals_of_shared(c) == 1

\* the session and the local variables a request works with are its own:
\* get_db calls SessionLocal() for each request and the handlers hold no
\* module-level data
locals_of(c) == c

\* db = SessionLocal() for a request that arrives
BeginSession(c, op, scope) ==
    [[sessions EXCEPT ![c] = [op |-> op, scope |-> scope,
                              pc |-> IF op = "dashboard" THEN "calories"
                                     ELSE "first_date",
                              db_open |-> TRUE, raised |-> "",
                              body |-> <<>>, locals |-> @.locals]]
        EXCEPT ![locals_of(c)].locals = NoLocals]

\* a client sends GET /data/dashboard and get_db opens its session
BeginDashboardRequest(c) ==
    /\ sessions[c].pc \in {"idle", "done"}
    /\ sessions' = BeginSession(c, "dashboard", "")
    /\ UNCHANGED <<store, today, request, response, users, http, loop>>

\* a client sends GET /missing-data?scope=... and get_db opens its session
BeginMissingDataRequest(c) ==
    /\ sessions[c].pc \in {"idle", "done"}
    /\ \E scope \in ClientScopes :
          sessions' = BeginSession(c, "missing", scope)
    /\ UNCHANGED <<store, today, request, response, users, http, loop>>

\* the handler of client c returns value: the generator get_db is resumed
HandlerReturns(c, value) ==
    [sessions EXCEPT ![c].pc = "finally", ![c].body = value]

\* the handler of client c raises: the exception is thrown into get_db
HandlerRaises(c, exception) ==
    [sessions EXCEPT ![c].pc = "finally", ![c].raised = exception]

\* the value of a reducer of get_dashboard_data other than the physio one
reducer_value(name, db, t, max_steps_data) ==
    CASE name = "calories" -> get_calorie_dashboard_data(db, t)
      [] name = "steps" -> get_steps_dashboard_data(db, t, max_steps_data)
      [] name = "cardio" -> get_cardio_dashboard_data(db, t)
      [] name = "strength" -> get_strength_dashboard_data(db, t)
      [] name = "physio" -> get_physio_dashboard_data(db, t)
      [] name = "weight" -> get_weight_dashboard_data(db)

\* the dict get_dashboard_data returns, from the six values in their order
dashboard_dict(parts) ==
    [calories |-> parts[1], steps |-> parts[2], cardio |-> parts[3],
     strength |-> parts[4], physio |-> parts[5], weight |-> parts[6]]

\* GET /data/dashboard, the queries of its next reducer.  The physio
\* reducer evaluates DailyData.physio_active before it sends a query, so it
\* raises as soon as the strength reducer has returned.
DashboardQueries(c) ==
    LET s == sessions[c]
        mine == sessions[locals_of(c)].locals
    IN /\ s.op = "dashboard"
       /\ s.pc \in DOMAIN NextReducer
       /\ \E max_steps_data \in
             IF steps_highest_candidates(store) = {} THEN {NULL}
             ELSE {Some(r) : r \in steps_highest_candidates(store)} :
           LET parts == Append(mine.parts,
                               reducer_value(s.pc, store, today,
                                             max_steps_data))
           IN sessions' =
                 IF /\ NextReducer[s.pc] = "physio"
                    /\ "physio_active" \notin DeclaredColumns
                 THEN HandlerRaises(c, AttributeError.raised)
                 ELSE IF NextReducer[s.pc] = "return"
                 THEN HandlerReturns(c, dashboard_dict(parts))
                 ELSE [sessions EXCEPT ![c].pc = NextReducer[s.pc],
                                       ![locals_of(c)].locals.parts = parts]
       /\ UNCHANGED <<store, today, request, response, users, http, loop>>

\* the answer of get_missing_data from its local variables
missing_days_from(scope, first_date, yesterday, missing_from_db, existing_dates) ==
    LET all_dates == all_dates_between(first_date, yesterday)
        NotStored(d) == d \in all_dates /\ d \notin existing_dates
        missing_completely ==
            SelectSeq([i \in 1..Cardinality(all_dates) |->
                          first_date + i - 1], NotStored)
        missing_dates ==
            scope_missing_dates(scope, missing_from_db, missing_completely)
    IN [missing_days |-> formatted_missing(sorted_unique(missing_dates))]

\* GET /missing-data, its first query: the earliest date of the table.  On
\* an empty table the handler returns at once; for scope physio it raises
\* when it builds the filter; for an unknown scope it sends no more queries.
MissingFirstDateQuery(c) ==
    LET s == sessions[c]
    IN /\ s.op = "missing"
       /\ s.pc = "first_date"
       /\ sessions' =
             IF store = {}
             THEN HandlerReturns(c, [missing_days |-> <<>>])
             ELSE IF s.scope = "physio" /\ "physio_active" \notin DeclaredColumns
             THEN HandlerRaises(c, AttributeError.raised)
             ELSE IF s.scope \notin KnownScopes
             THEN HandlerReturns(c, missing_days_from(s.scope, 0, today - 1,
                                                      {}, {}))
             ELSE [sessions EXCEPT
                     ![c].pc = IF s.scope = "dashboard"
                               THEN "existing_dates" ELSE "scope_query",
                     ![locals_of(c)].locals.first_date =
                         (CHOOSE r \in store :
                             \A q \in store : r.date <= q.date).date]
       /\ UNCHANGED <<store, today, request, response, users, http, loop>>

\* GET /missing-data, the query with the NULL filter of the scope
MissingScopeQuery(c) ==
    LET s == sessions[c]
        mine == sessions[locals_of(c)].locals
    IN /\ s.op = "missing"
       /\ s.pc = "scope_query"
       /\ sessions' =
             [sessions EXCEPT
                ![c].pc = "existing_dates",
                ![locals_of(c)].locals.missing_from_db =
                    {r.date : r \in {q \in Between(store, mine.first_date,
                                                   today - 1) :
                                        ScopeFilter(s.scope, q)}}]
       /\ UNCHANGED <<store, today, request, response, users, http, loop>>

\* GET /missing-data, the query for the dates that have a row, after which
\* the handler returns
MissingExistingDatesQuery(c) ==
    LET s == sessions[c]
        mine == sessions[locals_of(c)].locals
    IN /\ s.op = "missing"
       /\ s.pc = "existing_dates"
       /\ sessions' =
             HandlerReturns(c, missing_days_from(s.scope, mine.first_date,
                                                 today - 1,
                                                 mine.missing_from_db,
                                                 {r.date : r \in store}))
       /\ UNCHANGED <<store, today, request, response, users, http, loop>>

\* the finally clause of get_db: db.close(), after which the answer or the
\* exception reaches the web layer
CloseSession(c) ==
    /\ sessions[c].pc = "finally"
    /\ sessions' = [sessions EXCEPT ![c].pc = "done", ![c].db_open = FALSE]
    /\ UNCHANGED <<store, today, request, response, users, http, loop>>

\* the exception of a query that the database could not answer
StorageFailure == [raised |-> "SQLAlchemyError"]

\* a query of the handler of client c fails: neither handler has a try
\* block, so the exception leaves the handler at once
QueryFails(c) ==
    /\ sessions[c].pc \in
          DOMAIN NextReducer
             \cup {"first_date", "scope_query", "existing_dates"}
    /\ sessions' = HandlerRaises(c, StorageFailure.raised)
    /\ UNCHANGED <<store, today, request, response, users, http, loop>>

NextSessions ==
    \E c \in Clients :
        \/ BeginDashboardRequest(c)
        \/ BeginMissingDataRequest(c)
        \/ DashboardQueries(c)
        \/ MissingFirstDateQuery(c)
        \/ MissingScopeQuery(c)
        \/ MissingExistingDatesQuery(c)
        \/ CloseSession(c)

\* the same requests over a database whose queries may fail
NextFailingSessions == NextSessions \/ \E c \in Clients : QueryFails(c)

(***************************************************************************)
(* AuthenticationMiddleware.  Header and cookie values are strings; a      *)
(* token is a string that jwt.decode accepts or rejects.                   *)
(***************************************************************************)
PUBLIC_ROUTES == {"/login", "/health", "/static"}

\* s.startswith(prefix)
startswith(s, prefix) ==
    Len(s) >= Len(prefix) /\ SubSeq(s, 1, Len(prefix)) = prefix

\* needle in s, for strings
contains(s, needle) ==
    \E i \in 1..(Len(s) - Len(needle) + 1) :
        SubSeq(s, i, i + Len(needle) - 1) = needle

\* fault-injected variant: every path that starts with /static is public
is_public_route_static_prefix(path) ==
    path \in PUBLIC_ROUTES \/ startswith(path, "/static")

is_public_route(path) ==
    path \in PUBLIC_ROUTES \/ startswith(path, "/static/")

is_web_request(req) ==
    contains(IF req.accept = NULL THEN "" ELSE req.accept[1], "text/html")

\* jwt.decode(token, SECRET_KEY, algorithms=[ALGORITHM]): the payload of a
\* token that carries a valid signature and has not expired, and JWTError
\* for every other string
jwt_decode(token) ==
    CASE token = "jwt.alice" -> [raised |-> "", sub |-> Some("alice")]
      [] token = "jwt.bob" -> [raised |-> "", sub |-> Some("bob")]
      [] token = "jwt.empty-sub" -> [raised |-> "", sub |-> Some("")]
      [] token = "jwt.no-sub" -> [raised |-> "", sub |-> NULL]
      [] OTHER -> [raised |-> "JWTError", sub |-> NULL]

\* get_authenticated_user: the user the request authenticates as (a row of
\* the users table, given by its name), or None
get_authenticated_user(req, user_table) ==
    LET cookie == req.cookie
        auth_header == req.authorization
        from_cookie == cookie # NULL /\ cookie[1] # ""
        from_header ==
            auth_header # NULL /\ startswith(auth_header[1], "Bearer ")
        token ==
            IF from_cookie
            THEN IF startswith(cookie[1], "Bearer ")
                 THEN SubSeq(cookie[1], 8, Len(cookie[1]))
                 ELSE cookie[1]
            ELSE SubSeq(auth_header[1], 8, Len(auth_header[1]))
    IN IF ~from_cookie /\ ~from_header THEN NULL
       ELSE LET payload == jwt_decode(token)
                username == payload.sub
            IN IF payload.raised # "" THEN NULL
               ELSE IF username = NULL \/ username = Some("") THEN NULL
               ELSE IF username[1] \in user_table THEN username
               ELSE NULL

\* what the middleware does with a request: it hands it to the handler
\* (call_next), with the user attached unless the route is public, or it
\* answers by itself
dispatch(req, user_table) ==
    IF is_public_route(req.path)
    THEN [call_next |-> TRUE, user |-> NULL, status_code |-> 0,
          location |-> "", media_type |-> ""]
    ELSE LET user == get_authenticated_user(req, user_table)
         IN IF user = NULL
            THEN IF is_web_request(req)
                 THEN [call_next |-> FALSE, user |-> NULL,
                       status_code |-> 302, location |-> "/login",
                       media_type |-> ""]
                 ELSE [call_next |-> FALSE, user |-> NULL,
                       status_code |-> 401, location |-> "",
                       media_type |-> "application/json"]
            ELSE [call_next |-> TRUE, user |-> user, status_code |-> 0,
                  location |-> "", media_type |-> ""]

\* no request at the middleware
NoHttp == [request |-> <<>>, dispatched |-> FALSE, result |-> <<>>]

\* the strings a client may send as a token
TokenStrings ==
    {"", "garbage", "jwt.alice", "jwt.bob", "jwt.empty-sub", "jwt.no-sub"}

CookieValues ==
    {NULL} \cup {Some(t) : t \in TokenStrings}
           \cup {Some("Bearer " \o t) : t \in TokenStrings}

AuthorizationValues ==
    {NULL, Some("Basic jwt.alice"), Some("jwt.alice")}
       \cup {Some("Bearer " \o t) : t \in TokenStrings}

Paths ==
    {"/", "/login", "/health", "/static", "/static/app.css", "/staticfiles",
     "/login/", "/data/dashboard", "/missing-data"}

AcceptValues ==
    {NULL, Some("text/html,application/xhtml+xml"), Some("application/json"),
     Some("*/*")}

\* the middleware handles the request that has arrived
Dispatch ==
    /\ http.request # <<>>
    /\ ~http.dispatched
    /\ http' = [http EXCEPT !.dispatched = TRUE,
                            !.result = dispatch(http.request, users)]
    /\ UNCHANGED <<store, today, request, response, sessions, users, loop>>

(***************************************************************************)
(* The `while True` loops of the current streaks, one pass at a time.  A   *)
(* loop holds the date it looks at next and the days it has counted.       *)
(***************************************************************************)
NoLoop == [metric |-> "none", pc |-> "idle", check_date |-> 0,
           current_streak |-> 0]

\* fault-injected variant: a day below its goal does not leave the loop
steps_streak_pass_without_break(db, l) ==
    LET day_data == RowAt(db, l.check_date)
    IN IF IsNull(day_data) \/ IsNull(Val(day_data).steps_actual)
          \/ IsNull(Val(day_data).steps_goal)
       THEN [l EXCEPT !.pc = "done"]
       ELSE IF Val(Val(day_data).steps_actual) >= Val(Val(day_data).steps_goal)
            THEN [l EXCEPT !.current_streak = @ + 1, !.check_date = @ - 1]
            ELSE l

\* one pass of the loop of the steps current streak
steps_streak_pass(db, l) ==
    LET day_data == RowAt(db, l.check_date)
    IN IF IsNull(day_data) \/ IsNull(Val(day_data).steps_actual)
          \/ IsNull(Val(day_data).steps_goal)
       THEN [l EXCEPT !.pc = "done"]
       ELSE IF Val(Val(day_data).steps_actual) >= Val(Val(day_data).steps_goal)
            THEN [l EXCEPT !.current_streak = @ + 1, !.check_date = @ - 1]
            ELSE [l EXCEPT !.pc = "done"]

\* one pass of the loop of the cardio current streak
cardio_streak_pass(db, l) ==
    LET day_data == RowAt(db, l.check_date)
    IN IF IsNull(day_data) THEN [l EXCEPT !.pc = "done"]
       ELSE IF total_minutes(Val(day_data)) >= CardioStreakMinutes
            THEN [l EXCEPT !.current_streak = @ + 1, !.check_date = @ - 1]
            ELSE [l EXCEPT !.pc = "done"]

\* one pass of the loop of the physio current streak: a row that is not
\* active moves the date back without counting
physio_streak_pass(db, l) ==
    LET day_data == RowAt(db, l.check_date)
    IN IF IsNull(day_data) THEN [l EXCEPT !.pc = "done"]
       ELSE IF Val(day_data).physio_active = Some(TRUE)
            THEN IF Val(day_data).physio_completed = Some(TRUE)
                 THEN [l EXCEPT !.current_streak = @ + 1,
                                !.check_date = @ - 1]
                 ELSE [l EXCEPT !.pc = "done"]
            ELSE [l EXCEPT !.check_date = @ - 1]

\* a reducer reaches the loop of its current streak, check_date = yesterday;
\* the physio reducer raises before, at its first query
StartCurrentStreak ==
    /\ loop.pc = "idle"
    /\ \E metric \in {"steps", "cardio", "physio"} :
          loop' =
             IF metric = "physio" /\ "physio_active" \notin DeclaredColumns
             THEN [NoLoop EXCEPT !.metric = metric, !.pc = "raised"]
             ELSE [metric |-> metric, pc |-> "loop",
                   check_date |-> today - 1, current_streak |-> 0]
    /\ UNCHANGED <<store, today, request, response, sessions, users, http>>

\* the loop runs one pass
CurrentStreakPass ==
    /\ loop.pc = "loop"
    /\ loop' = CASE loop.metric = "steps" -> steps_streak_pass(store, loop)
                 [] loop.metric = "cardio" -> cardio_streak_pass(store, loop)
                 [] loop.metric = "physio" -> physio_streak_pass(store, loop)
    /\ UNCHANGED <<store, today, request, response, sessions, users, http>>

NextLoops == StartCurrentStreak \/ CurrentStreakPass

NextDashboard == SendDashboardRequest \/ GetDashboardData

NextMissing == SendMissingDataRequest \/ GetMissingData

NextStreaks ==
    \/ Call_get_steps_dashboard_data
    \/ Call_get_cardio_dashboard_data
    \/ Call_get_physio_dashboard_data

NextReducers ==
    \/ NextStreaks
    \/ Call_get_calorie_dashboard_data
    \/ Call_get_strength_dashboard_data
    \/ Call_get_weight_dashboard_data

Next ==
    \/ NextDashboard \/ NextMissing \/ NextReducers
    \/ NextFailingSessions
    \/ Dispatch
    \/ NextLoops

InitRequest ==
    /\ today = Today
    /\ request = NoRequest
    /\ response = NoResponse
    /\ sessions = [c \in Clients |-> IdleSession]
    /\ users = {}
    /\ http = NoHttp
    /\ loop = NoLoop

\* every operation on the histories of the families above that span a few
\* weeks; the weight histories, which span a year, are explored with the
\* weight reducer alone
Init ==
    /\ \/ StreakHistory(store) \/ MissingHistory(store)
       \/ AverageHistory(store) \/ CardioTotalsHistory(store)
       \/ StrengthHistory(store) \/ CalorieHistory(store)
    /\ InitRequest

Spec == Init /\ [][Next]_vars

\* the streak reducers on the dense step, cardio and physio histories
InitStreaks == StreakHistory(store) /\ InitRequest

SpecStreaks == InitStreaks /\ [][NextStreaks]_vars

\* the steps reducer on the sparse and full-week step histories
InitAverages == AverageHistory(store) /\ InitRequest

SpecAverages == InitAverages /\ [][Call_get_steps_dashboard_data]_vars

\* missing-data requests on histories that vary each scope's columns
InitMissing == MissingHistory(store) /\ InitRequest

SpecMissing == InitMissing /\ [][NextMissing]_vars

\* the cardio reducer on the full-week and sparse cardio histories
InitCardioTotals == CardioTotalsHistory(store) /\ InitRequest

SpecCardioTotals ==
    InitCardioTotals /\ [][Call_get_cardio_dashboard_data]_vars

\* the weight reducer on the weight histories
InitWeight == WeightHistory(store) /\ InitRequest

SpecWeight == InitWeight /\ [][Call_get_weight_dashboard_data]_vars

\* the strength reducer on the strength histories
InitStrength == StrengthHistory(store) /\ InitRequest

SpecStrength == InitStrength /\ [][Call_get_strength_dashboard_data]_vars

\* the calorie reducer on the calorie histories
InitCalories == CalorieHistory(store) /\ InitRequest

SpecCalories == InitCalories /\ [][Call_get_calorie_dashboard_data]_vars

\* dashboard requests on the histories of the missing-data scan, the empty
\* table among them
SpecDashboard == InitMissing /\ [][NextDashboard]_vars

\* missing-data requests on histories that reach back more than a month
InitFormat == FormatHistory(store) /\ InitRequest

SpecFormat == InitFormat /\ [][NextMissing]_vars

\* requests of several clients, query by query, each in its own session
InitSessions == SessionHistory(store) /\ InitRequest

SpecSessions == InitSessions /\ [][NextSessions]_vars

\* the requests of several clients over a database whose queries may fail
SpecFailingSessions == InitSessions /\ [][NextFailingSessions]_vars

\* a request at the middleware, over a users table with or without alice
InitAuth ==
    /\ store = {}
    /\ today = Today
    /\ request = NoRequest
    /\ response = NoResponse
    /\ sessions = [c \in Clients |-> IdleSession]
    /\ loop = NoLoop
    /\ users \in {{}, {"alice"}}
    /\ \E path \in Paths, cookie \in CookieValues,
          authorization \in AuthorizationValues, accept \in AcceptValues :
          http = [request |-> [path |-> path, cookie |-> cookie,
                               authorization |-> authorization,
                               accept |-> accept],
                  dispatched |-> FALSE, result |-> <<>>]

SpecAuth == InitAuth /\ [][Dispatch]_vars

\* the loops of the current streaks, pass by pass; a loop that can run a
\* pass runs it: the interpreter goes on executing the reducer
InitLoops == LoopHistory(store) /\ InitRequest

SpecLoops == InitLoops /\ [][NextLoops]_vars

FairSpecLoops == SpecLoops /\ WF_vars(CurrentStreakPass)

(***************************************************************************)
(* Properties.  The definitions below restate what the reducers are to     *)
(* return in terms of the stored history alone.                            *)
(***************************************************************************)
Yesterday == today - 1
\* the last operation was a call of fn, which returned or raised
Called(fn) == response.op = fn
\* the last operation was a call of fn, which returned response.body
Returned(fn) == response.op = fn /\ response.raised = ""
StepsReturned == Returned("get_steps_dashboard_data")
CardioReturned == Returned("get_cardio_dashboard_data")
PhysioReturned == Returned("get_physio_dashboard_data")
HasRow(d) == \E r \in store : r.date = d
RowOn(d) == CHOOSE r \in store : r.date = d

\* the day has a row whose step count reaches its goal
StepsGoalMet(d) ==
    /\ HasRow(d)
    /\ RowOn(d).steps_actual # NULL /\ RowOn(d).steps_goal # NULL
    /\ RowOn(d).steps_actual[1] >= RowOn(d).steps_goal[1]

\* the day has a row with at least 15 minutes of cardio, NULL counting as 0
CardioGoalMet(d) ==
    /\ HasRow(d)
    /\ (IF RowOn(d).cardio_low_intensity_minutes = NULL THEN 0
        ELSE RowOn(d).cardio_low_intensity_minutes[1])
       + (IF RowOn(d).cardio_high_intensity_minutes = NULL THEN 0
          ELSE RowOn(d).cardio_high_intensity_minutes[1]) >= 15

\* the day has a row with physio active and completed
PhysioDone(d) ==
    /\ HasRow(d)
    /\ RowOn(d).physio_active = <<TRUE>>
    /\ RowOn(d).physio_completed = <<TRUE>>

\* the day has a row with physio active and not completed (false or NULL)
PhysioBroken(d) ==
    /\ HasRow(d)
    /\ RowOn(d).physio_active = <<TRUE>>
    /\ RowOn(d).physio_completed # <<TRUE>>

\* C1: each of the steps, cardio and physio reducers, called on a history
\* with no record dated yesterday, returns a current streak of 0, whatever
\* other records exist.
C1_NoRecordYesterdayGivesZero ==
    ~HasRow(Yesterday) =>
        \A fn \in {"get_steps_dashboard_data", "get_cardio_dashboard_data",
                    "get_physio_dashboard_data"} :
            Called(fn) => Returned(fn) /\ response.body.current_streak = 0

\* C2: the steps current streak is the number k such that the k days up to
\* yesterday each have a record that meets its goal and the day before them
\* has no record, a NULL field or a count below the goal.
C2_StepsCurrentStreak ==
    StepsReturned =>
        LET k == response.body.current_streak
        IN /\ k \in Nat
           /\ \A i \in 0..(k - 1) : StepsGoalMet(Yesterday - i)
           /\ ~StepsGoalMet(Yesterday - k)

\* a steps streak of 2 days, the goal met exactly yesterday, ended by a
\* stored day below its goal
C2_Witness ==
    /\ StepsReturned
    /\ response.body.current_streak = 2
    /\ RowOn(Yesterday).steps_actual = RowOn(Yesterday).steps_goal
    /\ HasRow(Yesterday - 2)
    /\ RowOn(Yesterday - 2).steps_actual = <<1>>
    /\ RowOn(Yesterday - 2).steps_goal = <<2>>

\* the last date up to yesterday at which the physio scan stops: a date
\* without a record or with physio active and not completed
PhysioStopDate ==
    CHOOSE d \in -1..Yesterday :
        /\ ~HasRow(d) \/ PhysioBroken(d)
        /\ \A e \in (d + 1)..Yesterday : HasRow(e) /\ ~PhysioBroken(e)

\* C3: the physio reducer returns as current streak the number of
\* active-and-completed records between yesterday and the first date,
\* walking backward, that has no record or is active without being
\* completed; inactive records in between are passed over without counting
\* and without stopping.
C3_PhysioCurrentStreak ==
    Called("get_physio_dashboard_data") =>
        /\ PhysioReturned
        /\ response.body.current_streak =
              Cardinality({d \in (PhysioStopDate + 1)..Yesterday : PhysioDone(d)})

\* the first date of the unbroken block of stored dates that ends at e
BlockStart(e) ==
    CHOOSE a \in 0..e :
        /\ \A d \in a..e : HasRow(d)
        /\ a = 0 \/ ~HasRow(a - 1)

\* the largest member of a non-empty finite set of numbers
Largest(S) == CHOOSE n \in S : \A m \in S : m <= n

\* C4: the steps, cardio and physio reducers return a longest streak in
\* which a gap of more than one day between stored rows has reset the
\* running count: it never has more days than qualify inside the unbroken
\* block of stored dates that ends at its end date, and two qualifying rows
\* 3 days apart give a longest streak of 1.
C4_GapResetsLongestStreak ==
    \A fn \in {"get_steps_dashboard_data", "get_cardio_dashboard_data",
                "get_physio_dashboard_data"} :
        Called(fn) =>
            /\ Returned(fn)
            /\ LET best == response.body.longest_streak
                   Counts(d) ==
                       IF fn = "get_steps_dashboard_data" THEN StepsGoalMet(d)
                       ELSE IF fn = "get_cardio_dashboard_data"
                            THEN CardioGoalMet(d)
                            ELSE PhysioDone(d)
               IN /\ best.streak > 0 => best.end_date # NULL
                  /\ best.end_date # NULL =>
                        /\ HasRow(best.end_date[1])
                        /\ best.streak <=
                              Cardinality({d \in BlockStart(best.end_date[1])
                                                   ..best.end_date[1] : Counts(d)})
                  /\ (/\ Cardinality(store) = 2
                      /\ \E d \in 0..today : Counts(d) /\ Counts(d + 3))
                     => best.streak = 1

\* the number of active-and-completed days in the best stretch of stored
\* consecutive dates that holds no active-but-not-completed day
PhysioLongest ==
    Largest({0} \cup
        {Cardinality({d \in a..b : PhysioDone(d)}) :
            <<a, b>> \in {p \in (0..today) \X (0..today) :
                            /\ p[1] <= p[2]
                            /\ \A d \in p[1]..p[2] :
                                  HasRow(d) /\ ~PhysioBroken(d)}})

\* C5: the physio reducer returns a longest streak in which an inactive
\* row (active false or NULL) has neither incremented nor reset the running
\* count, so completed rows on both sides of it on consecutive dates form
\* one streak: the rows [T,T], [F,NULL], [T,T] on 3 consecutive dates give a
\* longest streak of 2.
C5_PhysioLongestSkipsInactive ==
    Called("get_physio_dashboard_data") =>
        /\ PhysioReturned
        /\ response.body.longest_streak.streak = PhysioLongest
        /\ \A d \in 0..today :
              (/\ Cardinality(store) = 3
               /\ PhysioDone(d) /\ PhysioDone(d + 2)
               /\ HasRow(d + 1)
               /\ RowOn(d + 1).physio_active = <<FALSE>>
               /\ RowOn(d + 1).physio_completed = NULL)
              => response.body.longest_streak.streak = 2

\* the length of the longest run of consecutive dates within a set of dates
LongestRun(dates) ==
    Largest({0} \cup
        {p[2] - p[1] + 1 :
            p \in {q \in (0..today) \X (0..today) :
                     q[1] <= q[2] /\ \A d \in q[1]..q[2] : d \in dates}})

\* C6: for steps and cardio the longest streak is the length of the longest
\* run of stored rows on consecutive dates that all qualify, and its end
\* date is the date of the last row of a run of that length.
C6_LongestStreakIsLongestRun ==
    /\ StepsReturned =>
          /\ response.body.longest_streak.streak =
                LongestRun({d \in 0..today : StepsGoalMet(d)})
          /\ LET best == response.body.longest_streak
             IN best.streak > 0 =>
                   /\ best.end_date # NULL
                   /\ \A d \in (best.end_date[1] - best.streak + 1)
                               ..best.end_date[1] : StepsGoalMet(d)
    /\ CardioReturned =>
          /\ response.body.longest_streak.streak =
                LongestRun({d \in 0..today : CardioGoalMet(d)})
          /\ LET best == response.body.longest_streak
             IN best.streak > 0 =>
                   /\ best.end_date # NULL
                   /\ \A d \in (best.end_date[1] - best.streak + 1)
                               ..best.end_date[1] : CardioGoalMet(d)

\* two days that meet the steps goal, a stored day that does not, and one
\* more that does: the longest streak is 2 and ends on the second day
C6_Witness ==
    /\ StepsReturned
    /\ StepsGoalMet(today - 3) /\ StepsGoalMet(today - 2)
    /\ HasRow(today - 1) /\ ~StepsGoalMet(today - 1)
    /\ StepsGoalMet(today)
    /\ response.body.longest_streak = [streak |-> 2, end_date |-> <<today - 2>>]

\* C7: the cardio current streak is the number k such that the k days up to
\* yesterday each have a record with at least 15 minutes in total (NULL
\* counting as 0) and the day before them has no record or a smaller total;
\* a record with both fields NULL ends the streak.
C7_CardioCurrentStreak ==
    CardioReturned =>
        LET k == response.body.current_streak
        IN /\ k \in Nat
           /\ \A i \in 0..(k - 1) : CardioGoalMet(Yesterday - i)
           /\ ~CardioGoalMet(Yesterday - k)

\* a cardio streak of 2 days, one of them with exactly 15 minutes in one
\* field and NULL in the other, ended by a record with both fields NULL
C7_Witness ==
    /\ CardioReturned
    /\ response.body.current_streak = 2
    /\ RowOn(Yesterday).cardio_low_intensity_minutes = <<15>>
    /\ RowOn(Yesterday).cardio_high_intensity_minutes = NULL
    /\ HasRow(Yesterday - 2)
    /\ RowOn(Yesterday - 2).cardio_low_intensity_minutes = NULL
    /\ RowOn(Yesterday - 2).cardio_high_intensity_minutes = NULL

\* the step count stored for a date, 0 when there is no row or no count
StepsOn(d) ==
    IF HasRow(d) /\ RowOn(d).steps_actual # NULL
    THEN RowOn(d).steps_actual[1] ELSE 0

RECURSIVE StepsTotal(_, _)
StepsTotal(a, b) == IF a > b THEN 0 ELSE StepsOn(a) + StepsTotal(a + 1, b)

\* C8 as stated: each weekly average is the sum of the step counts of its
\* window divided by 7, on every history.
C8_AverageIsSumOverSeven ==
    StepsReturned =>
        /\ response.body.averages.last_7_days =
              <<[num |-> StepsTotal(Yesterday - 6, Yesterday), den |-> 7]>>
        /\ response.body.averages.previous_7_days =
              <<[num |-> StepsTotal(Yesterday - 13, Yesterday - 7), den |-> 7]>>

\* the average reported for a window whose step counts add up to total
SevenDayAverage(total) ==
    IF total # 0 THEN <<[num |-> total, den |-> 7]>> ELSE NULL

\* C8 (amended): the weekly averages use the fixed divisor 7 however many
\* days have data: last_7_days is the sum of the step counts dated in
\* [yesterday-6, yesterday] divided by 7 when that sum is not 0 and null when
\* it is 0 or the window holds no count, previous_7_days the same over
\* [yesterday-13, yesterday-7]; counts 1000, 2000 and five NULLs give 3000/7.
C8_AverageIsSumOverSevenOrNull ==
    StepsReturned =>
        /\ response.body.averages.last_7_days =
              SevenDayAverage(StepsTotal(Yesterday - 6, Yesterday))
        /\ response.body.averages.previous_7_days =
              SevenDayAverage(StepsTotal(Yesterday - 13, Yesterday - 7))
        /\ (/\ Cardinality(store) = 7
            /\ \A d \in (Yesterday - 6)..Yesterday : HasRow(d)
            /\ RowOn(Yesterday - 6).steps_actual = <<1000>>
            /\ RowOn(Yesterday - 5).steps_actual = <<2000>>
            /\ \A d \in (Yesterday - 4)..Yesterday : RowOn(d).steps_actual = NULL)
           => response.body.averages.last_7_days =
                 <<[num |-> 3000, den |-> 7]>>

\* a week of rows with the counts 1000, 2000 and five NULLs, answered 3000/7
C8_Witness ==
    /\ StepsReturned
    /\ Cardinality(store) = 7
    /\ \A d \in (Yesterday - 6)..Yesterday : HasRow(d)
    /\ RowOn(Yesterday - 6).steps_actual = <<1000>>
    /\ RowOn(Yesterday - 5).steps_actual = <<2000>>
    /\ \A d \in (Yesterday - 4)..Yesterday : RowOn(d).steps_actual = NULL
    /\ response.body.averages.last_7_days = <<[num |-> 3000, den |-> 7]>>
    /\ response.body.averages.previous_7_days = NULL

\* the last operation was the scan for scope, which answered or raised
MissingHandled(scope) == response.op = "missing" /\ response.scope = scope
\* the last operation was the scan for scope, which answered response.body
MissingAnswered(scope) == MissingHandled(scope) /\ response.raised = ""
EarliestDate == CHOOSE d \in {r.date : r \in store} : \A r \in store : d <= r.date

\* Reading the wire format back.  A client parses the 'date' string of an
\* entry: four digits, a dash, two digits, a dash, two digits.
Digit(c) ==
    CASE c = "0" -> 0 [] c = "1" -> 1 [] c = "2" -> 2 [] c = "3" -> 3
      [] c = "4" -> 4 [] c = "5" -> 5 [] c = "6" -> 6 [] c = "7" -> 7
      [] c = "8" -> 8 [] c = "9" -> 9

RECURSIVE ParseNumber(_)
ParseNumber(s) ==
    IF Len(s) = 0 THEN 0
    ELSE 10 * ParseNumber(SubSeq(s, 1, Len(s) - 1))
            + Digit(SubSeq(s, Len(s), Len(s)))

\* the number of days from 1970-01-01 to a date of the Gregorian calendar,
\* counted in 400-year eras and years that begin on 1 March
DaysFromCivil(year, month, day) ==
    LET y == IF month <= 2 THEN year - 1 ELSE year
        era == y \div 400
        yoe == y - era * 400
        doy == (153 * (IF month > 2 THEN month - 3 ELSE month + 9) + 2) \div 5
                  + day - 1
        doe == yoe * 365 + yoe \div 4 - yoe \div 100 + doy
    IN era * 146097 + doe - 719468

\* the day number of the date that an ISO string YYYY-MM-DD names
ParseIsoDate(s) ==
    DaysFromCivil(ParseNumber(SubSeq(s, 1, 4)), ParseNumber(SubSeq(s, 6, 7)),
                  ParseNumber(SubSeq(s, 9, 10)))
        - DaysFromCivil(2024, 1, 1)

\* the dates of the entries of the answer, in the order of the answer
ReportedDates ==
    [i \in 1..Len(response.body.missing_days) |->
        ParseIsoDate(response.body.missing_days[i].date)]

Reported == {ReportedDates[i] : i \in 1..Len(ReportedDates)}

\* C9: with scope 'dashboard' the scan returns exactly the dates from the
\* earliest stored date to yesterday that have no record; a single record
\* dated 3 days before yesterday gives yesterday-2, yesterday-1, yesterday.
C9_DashboardScopeMissing ==
    MissingAnswered("dashboard") =>
        /\ Reported = IF store = {} THEN {}
                      ELSE {d \in EarliestDate..Yesterday : ~HasRow(d)}
        /\ (Cardinality(store) = 1 /\ HasRow(Yesterday - 3))
           => ReportedDates = <<Yesterday - 2, Yesterday - 1, Yesterday>>

\* the scan answered on a single record dated 3 days before yesterday
C9_Witness ==
    /\ MissingAnswered("dashboard")
    /\ Cardinality(store) = 1 /\ HasRow(Yesterday - 3)
    /\ ReportedDates = <<Yesterday - 2, Yesterday - 1, Yesterday>>

\* the columns that make a record count as missing for a scope
ScopeFieldsNull(scope, r) ==
    \/ /\ scope = "calories"
       /\ \E c \in {"calories_green_goal", "calories_green_actual",
                    "calories_yellow_goal", "calories_yellow_actual",
                    "calories_orange_goal", "calories_orange_actual"} :
             r[c] = NULL
    \/ scope = "steps" /\ (r.steps_goal = NULL \/ r.steps_actual = NULL)
    \/ scope = "weight" /\ r.weight_kg = NULL
    \/ /\ scope = "cardio"
       /\ \/ r.cardio_low_intensity_minutes = NULL
          \/ r.cardio_high_intensity_minutes = NULL
    \/ scope = "strength" /\ r.strength_workout_type = NULL
    \/ /\ scope = "physio"
       /\ \/ r.physio_active = NULL
          \/ (r.physio_active = <<TRUE>> /\ r.physio_completed = NULL)

\* C10: for each of the scopes calories, steps, weight, cardio, strength and
\* physio the scan returns exactly the dates from the earliest stored date
\* to yesterday that have no record or a record whose scope columns are
\* NULL.
C10_ScopeMissing ==
    \A scope \in KnownScopes \ {"dashboard"} :
        MissingHandled(scope) =>
            /\ MissingAnswered(scope)
            /\ Reported = IF store = {} THEN {}
                          ELSE {d \in EarliestDate..Yesterday :
                                  ~HasRow(d) \/ ScopeFieldsNull(scope, RowOn(d))}

\* C11: for every scope and every history the missing_days list that the
\* scan returns is strictly ascending by date, hence holds no date twice,
\* also when it is put together from dates without a record and dates whose
\* record has a NULL field.
C11_MissingDaysStrictlyAscending ==
    \A scope \in Scopes :
        MissingAnswered(scope) =>
            \A i, j \in 1..Len(ReportedDates) :
                i < j => ReportedDates[i] < ReportedDates[j]

\* the steps scan answered with a date that has no record and, before it in
\* the list the scan concatenates, a later date whose record has a NULL
\* steps field
C11_Witness ==
    /\ MissingAnswered("steps")
    /\ \E d, e \in Reported :
          /\ d < e
          /\ ~HasRow(d)
          /\ HasRow(e) /\ ScopeFieldsNull("steps", RowOn(e))

\* C12: the scan answers with an empty list, and does not fail, for a scope
\* that is not one of the seven known scopes, whatever the history, and for
\* every scope when the store holds no record.
C12_UnknownScopeOrEmptyStoreGivesEmptyList ==
    \A scope \in Scopes :
        (MissingHandled(scope) /\ (scope \notin KnownScopes \/ store = {}))
        => /\ MissingAnswered(scope)
           /\ response.body.missing_days = <<>>

\* the scan answered the empty list for an unknown scope on a history with
\* a date that has no record between its first record and yesterday
C12_Witness ==
    /\ MissingAnswered("sleep")
    /\ store # {}
    /\ \E d \in EarliestDate..Yesterday : ~HasRow(d)
    /\ response.body.missing_days = <<>>

\* the last operation was GET /data/dashboard, which answered or raised
DashboardHandled == response.op = "dashboard"
\* the last operation was GET /data/dashboard, which answered response.body
DashboardAnswered == DashboardHandled /\ response.raised = ""
NoStreak == [streak |-> 0, end_date |-> NULL]

\* C13: on the empty history GET /data/dashboard answers, without raising,
\* the six structures with neutral values: current streaks 0, longest
\* streaks 0 with null end date, highest steps and date null, cardio totals
\* 0, strength count 0 with no type counts, physio active flag null, an
\* empty calorie list and an empty weight history.
C13_EmptyHistoryNeutral ==
    (DashboardHandled /\ store = {}) =>
        /\ DashboardAnswered
        /\ response.body.calories = <<>>
        /\ response.body.steps.current_streak = 0
        /\ response.body.steps.longest_streak = NoStreak
        /\ response.body.steps.highest = [steps |-> NULL, date |-> NULL]
        /\ response.body.cardio.last_7_days =
              [low_intensity |-> 0, high_intensity |-> 0]
        /\ response.body.cardio.current_streak = 0
        /\ response.body.cardio.longest_streak = NoStreak
        /\ response.body.strength.last_7_days_count = 0
        /\ DOMAIN response.body.strength.workout_type_counts = {}
        /\ response.body.physio.current_active = NULL
        /\ response.body.physio.current_streak = 0
        /\ response.body.physio.longest_streak = NoStreak
        /\ response.body.weight.weight_history = <<>>

BeforeToday == {r \in store : r.date < today}

\* C15: the current streak and the longest streak (length and end date)
\* that the steps, cardio and physio reducers return are those they return
\* on the history without its records dated today or later, so that adding,
\* removing or changing such a record changes neither.
C15_TodayRecordDoesNotChangeStreaks ==
    /\ StepsReturned =>
          LET past == get_steps_dashboard_data(BeforeToday, today, NULL)
          IN /\ response.body.current_streak = past.current_streak
             /\ response.body.longest_streak = past.longest_streak
    /\ CardioReturned =>
          LET past == get_cardio_dashboard_data(BeforeToday, today)
          IN /\ response.body.current_streak = past.current_streak
             /\ response.body.longest_streak = past.longest_streak
    /\ Called("get_physio_dashboard_data") =>
          /\ PhysioReturned
          /\ LET past == get_physio_dashboard_data(BeforeToday, today)
             IN /\ response.body.current_streak = past.current_streak
                /\ response.body.longest_streak = past.longest_streak

\* the minutes stored in a cardio column for a date, 0 when there is no
\* row or no value
MinutesOn(d, col) ==
    IF HasRow(d) /\ RowOn(d)[col] # NULL THEN RowOn(d)[col][1] ELSE 0

RECURSIVE MinutesTotal(_, _, _)
MinutesTotal(a, b, col) ==
    IF a > b THEN 0 ELSE MinutesOn(a, col) + MinutesTotal(a + 1, b, col)

\* a row on each of the 7 days up to yesterday with low-intensity minutes
\* 10, NULL, 20, NULL x4 and high-intensity minutes NULL, 5, NULL x5
CardioExampleWeek ==
    /\ Cardinality(store) = 7
    /\ \A d \in (Yesterday - 6)..Yesterday : HasRow(d)
    /\ RowOn(Yesterday - 6).cardio_low_intensity_minutes = <<10>>
    /\ RowOn(Yesterday - 6).cardio_high_intensity_minutes = NULL
    /\ RowOn(Yesterday - 5).cardio_low_intensity_minutes = NULL
    /\ RowOn(Yesterday - 5).cardio_high_intensity_minutes = <<5>>
    /\ RowOn(Yesterday - 4).cardio_low_intensity_minutes = <<20>>
    /\ RowOn(Yesterday - 4).cardio_high_intensity_minutes = NULL
    /\ \A d \in (Yesterday - 3)..Yesterday :
          /\ RowOn(d).cardio_low_intensity_minutes = NULL
          /\ RowOn(d).cardio_high_intensity_minutes = NULL

\* C16: the cardio reducer returns as weekly totals the low-intensity and
\* the high-intensity minutes summed independently over the records dated
\* in [yesterday-6, yesterday], a NULL field or an absent record counting
\* as 0, so that each total is the number 0 when the window has no value;
\* low 10, NULL, 20, NULL x4 and high NULL, 5, NULL x5 give 30 and 5.
C16_CardioWeeklyTotals ==
    CardioReturned =>
        /\ response.body.last_7_days.low_intensity =
              MinutesTotal(Yesterday - 6, Yesterday,
                           "cardio_low_intensity_minutes")
        /\ response.body.last_7_days.high_intensity =
              MinutesTotal(Yesterday - 6, Yesterday,
                           "cardio_high_intensity_minutes")
        /\ CardioExampleWeek =>
              response.body.last_7_days =
                  [low_intensity |-> 30, high_intensity |-> 5]

\* the example week, answered with the totals 30 and 5
C16_Witness ==
    /\ CardioReturned
    /\ CardioExampleWeek
    /\ response.body.last_7_days = [low_intensity |-> 30, high_intensity |-> 5]

WeightReturned == Returned("get_weight_dashboard_data")
\* the dates of the records that hold a weight
WeighedDates == {r.date : r \in {q \in store : q.weight_kg # NULL}}
\* the latest date of a record that holds a weight
LastWeighedDate == CHOOSE d \in WeighedDates : \A e \in WeighedDates : e <= d

\* C17: the weight reducer returns exactly the records with a non-null
\* weight dated in [L-364, L], L being the latest date of any record with a
\* non-null weight (which may be later than yesterday), in ascending date
\* order with their weights; the list is empty exactly when no record has a
\* weight, and otherwise its last entry is dated L.
C17_WeightHistoryWindow ==
    WeightReturned =>
        LET history == response.body.weight_history
        IN /\ history = <<>> <=> WeighedDates = {}
           /\ WeighedDates # {} =>
                 /\ {history[i].date : i \in 1..Len(history)} =
                       {d \in WeighedDates :
                          LastWeighedDate - 364 <= d /\ d <= LastWeighedDate}
                 /\ \A i, j \in 1..Len(history) :
                       i < j => history[i].date < history[j].date
                 /\ \A i \in 1..Len(history) :
                       <<history[i].weight_kg>> = RowOn(history[i].date).weight_kg
                 /\ history[Len(history)].date = LastWeighedDate

\* the last weight is dated today; the list starts with the weight recorded
\* 364 days earlier and leaves out the one recorded 365 days earlier and the
\* record of yesterday, which has no weight
C17_Witness ==
    /\ WeightReturned
    /\ WeighedDates # {}
    /\ LastWeighedDate = today
    /\ (today - 365) \in WeighedDates
    /\ HasRow(Yesterday) /\ RowOn(Yesterday).weight_kg = NULL
    /\ Len(response.body.weight_history) = 2
    /\ response.body.weight_history[1].date = today - 364
    /\ response.body.weight_history[2].date = today

StrengthReturned == Returned("get_strength_dashboard_data")
\* the workout types stored anywhere in the history, NULL left out
StoredWorkoutTypes ==
    {r.strength_workout_type[1] :
        r \in {q \in store : q.strength_workout_type # NULL}}
\* the number of records that carry workout type w
RecordsWithType(w) ==
    Cardinality({r \in store : r.strength_workout_type = <<w>>})
\* the number of records of the 7 days up to yesterday whose workout type is
\* neither NULL nor 'None'
WorkoutsInWindow ==
    Cardinality({r \in store :
                   /\ Yesterday - 6 <= r.date /\ r.date <= Yesterday
                   /\ r.strength_workout_type # NULL
                   /\ r.strength_workout_type # <<"None">>})

StepsRecorded == {r \in store : r.steps_actual # NULL}

\* C19: the steps reducer returns as highest.steps the largest non-null
\* steps_actual of the whole history and as highest.date the date of a
\* record holding that value; both are null exactly when no record has a
\* non-null steps_actual.
C19_HighestSteps ==
    StepsReturned =>
        LET highest == response.body.highest
        IN /\ highest.steps = NULL <=> StepsRecorded = {}
           /\ highest.date = NULL <=> StepsRecorded = {}
           /\ StepsRecorded # {} =>
                 /\ \A r \in StepsRecorded :
                       r.steps_actual[1] <= highest.steps[1]
                 /\ HasRow(highest.date[1])
                 /\ RowOn(highest.date[1]).steps_actual = highest.steps

\* a week with the counts 1000, 2000, NULL x4 and 2000: the highest count
\* is 2000, reported with the later of its two dates
C19_Witness ==
    /\ StepsReturned
    /\ Cardinality(store) = 7
    /\ \A d \in (Yesterday - 6)..Yesterday : HasRow(d)
    /\ RowOn(Yesterday - 6).steps_actual = <<1000>>
    /\ RowOn(Yesterday - 5).steps_actual = <<2000>>
    /\ \A d \in (Yesterday - 4)..(Yesterday - 1) : RowOn(d).steps_actual = NULL
    /\ RowOn(Yesterday).steps_actual = <<2000>>
    /\ response.body.highest = [steps |-> <<2000>>, date |-> <<Yesterday>>]

CaloriesReturned == Returned("get_calorie_dashboard_data")
CalorieColumns ==
    {"calories_green_goal", "calories_green_actual", "calories_yellow_goal",
     "calories_yellow_actual", "calories_orange_goal",
     "calories_orange_actual"}

\* C20: the calorie reducer returns one entry per stored record dated in
\* [yesterday-6, yesterday] and none for any other date, at most 7 entries
\* in ascending date order, each carrying the six calorie values of its
\* record unchanged, a NULL staying NULL; a date with no record has no
\* entry.
C20_CalorieEntries ==
    CaloriesReturned =>
        LET entries == response.body
        IN /\ {entries[i].date : i \in 1..Len(entries)} =
                 {d \in (Yesterday - 6)..Yesterday : HasRow(d)}
           /\ Len(entries) <= 7
           /\ \A i, j \in 1..Len(entries) :
                 i < j => entries[i].date < entries[j].date
           /\ \A i \in 1..Len(entries) :
                 \A c \in CalorieColumns :
                    entries[i][c] = RowOn(entries[i].date)[c]

\* records the day before the window, on its first day (with NULL values),
\* yesterday and today, none the day before yesterday: two entries, the
\* first with its NULLs kept
C20_Witness ==
    /\ CaloriesReturned
    /\ HasRow(Yesterday - 7) /\ HasRow(today)
    /\ HasRow(Yesterday - 6) /\ RowOn(Yesterday - 6).calories_green_goal = NULL
    /\ \A d \in (Yesterday - 5)..(Yesterday - 1) : ~HasRow(d)
    /\ HasRow(Yesterday) /\ RowOn(Yesterday).calories_yellow_actual = <<0>>
    /\ Len(response.body) = 2
    /\ response.body[1].date = Yesterday - 6
    /\ response.body[1].calories_green_goal = NULL
    /\ response.body[1].calories_green_actual = <<1500>>
    /\ response.body[2].date = Yesterday
    /\ response.body[2].calories_yellow_actual = <<0>>


\* the dates the scan is to list for a scope that answers
ExpectedMissing(scope) ==
    IF store = {} \/ scope \notin KnownScopes THEN {}
    ELSE {d \in EarliestDate..Yesterday :
            \/ ~HasRow(d)
            \/ scope # "dashboard" /\ ScopeFieldsNull(scope, RowOn(d))}

IsDigit(c) ==
    c \in {"0", "1", "2", "3", "4", "5", "6", "7", "8", "9"}

\* a string of the shape YYYY-MM-DD
IsIsoShaped(s) ==
    /\ Len(s) = 10
    /\ \A i \in {1, 2, 3, 4, 6, 7, 9, 10} : IsDigit(SubSeq(s, i, i))
    /\ SubSeq(s, 5, 5) = "-" /\ SubSeq(s, 8, 8) = "-"

\* year, month and day of the month that an ISO string names
IsoYear(s) == ParseNumber(SubSeq(s, 1, 4))
IsoMonth(s) == ParseNumber(SubSeq(s, 6, 7))
IsoDay(s) == ParseNumber(SubSeq(s, 9, 10))

\* 1970-01-01 was a Thursday
WeekdayOfIso(s) ==
    <<"Thursday", "Friday", "Saturday", "Sunday", "Monday", "Tuesday",
      "Wednesday">>[
        (DaysFromCivil(IsoYear(s), IsoMonth(s), IsoDay(s)) % 7) + 1]

MonthOfIso(s) ==
    CASE IsoMonth(s) = 1 -> "January" [] IsoMonth(s) = 2 -> "February"
      [] IsoMonth(s) = 3 -> "March" [] IsoMonth(s) = 4 -> "April"
      [] IsoMonth(s) = 5 -> "May" [] IsoMonth(s) = 6 -> "June"
      [] IsoMonth(s) = 7 -> "July" [] IsoMonth(s) = 8 -> "August"
      [] IsoMonth(s) = 9 -> "September" [] IsoMonth(s) = 10 -> "October"
      [] IsoMonth(s) = 11 -> "November" [] IsoMonth(s) = 12 -> "December"

\* 'th' for the days 11 to 13, otherwise 'st', 'nd', 'rd' for days that end
\* in 1, 2, 3 and 'th' for the rest
SuffixOfDay(day) ==
    IF day \in {11, 12, 13} THEN "th"
    ELSE IF day \in {1, 21, 31} THEN "st"
    ELSE IF day \in {2, 22} THEN "nd"
    ELSE IF day \in {3, 23} THEN "rd"
    ELSE "th"

\* '<weekday>, <day><suffix> <month>' of the date an ISO string names
DisplayOfIso(s) ==
    WeekdayOfIso(s) \o ", " \o ToString(IsoDay(s)) \o SuffixOfDay(IsoDay(s))
        \o " " \o MonthOfIso(s)

Finished(c) == sessions[c].pc \in {"finally", "done"}

\* the outcome of the request of client c is an outcome of the same request
\* handled alone, in one piece, on the stored records
SameAsAlone(c) ==
    LET s == sessions[c]
        Same(alone) ==
            /\ s.raised = alone.raised
            /\ s.raised = "" => s.body = alone.body
    IN IF s.op = "dashboard"
       THEN \E max_steps_data \in
                IF steps_highest_candidates(store) = {} THEN {NULL}
                ELSE {Some(r) : r \in steps_highest_candidates(store)} :
               Same(Outcome("dashboard", "",
                            get_dashboard_data(store, today, max_steps_data)))
       ELSE Same(Outcome("missing", s.scope,
                         get_missing_data(store, today, s.scope)))

RequestsIsolated == \A c \in Clients : Finished(c) => SameAsAlone(c)

\* C21: no step of an aggregate-fetch or missing-data request changes the
\* stored records, and however the queries of the requests of several
\* clients interleave, one request after another or several in flight, each
\* request ends with the outcome it has when it is handled alone.
C21_RequestsIsolated == [][store' = store]_vars /\ []RequestsIsolated

\* two missing-data requests with different scopes were in flight together,
\* the first sent its scope query before the second and returned after it,
\* and their answers differ
C21_Witness ==
    /\ sessions[1].op = "missing" /\ sessions[1].scope = "steps"
    /\ sessions[2].op = "missing" /\ sessions[2].scope = "weight"
    /\ sessions[1].pc = "finally" /\ sessions[2].pc = "done"
    /\ sessions[1].raised = "" /\ sessions[2].raised = ""
    /\ sessions[1].body # sessions[2].body
    /\ sessions[1].body.missing_days # <<>>


\* a request that failed ends without a body, and a finished request has a
\* closed session once get_db has run to its end
FailureLeavesNothing ==
    \A c \in Clients :
        /\ (Finished(c) /\ sessions[c].raised # "") => sessions[c].body = <<>>
        /\ sessions[c].pc = "done" => ~sessions[c].db_open

\* C23: the only failure of an aggregate-fetch or missing-data request is a
\* storage failure of one of its queries, whatever records are stored; it
\* reaches the caller as it was raised, without a partial or default
\* result, and the session of the request is closed all the same.
C23_OnlyStorageFailures ==
    /\ \A c \in Clients :
          Finished(c) => sessions[c].raised \in {"", StorageFailure.raised}
    /\ FailureLeavesNothing

\* a storage failure has reached the caller of a request whose session is
\* closed
StorageFailurePropagated ==
    \E c \in Clients :
        /\ sessions[c].pc = "done"
        /\ sessions[c].raised = StorageFailure.raised
        /\ sessions[c].op = "dashboard"


\* the request at the middleware carries token t: as the access_token
\* cookie, with or without the prefix 'Bearer ', or as a Bearer token in
\* the Authorization header
Carries(t) ==
    \/ http.request.cookie \in {Some(t), Some("Bearer " \o t)}
    \/ http.request.authorization = Some("Bearer " \o t)

\* the request carries a token whose subject names a stored user
CarriesTokenOfUser == \E u \in users : Carries("jwt." \o u)

PublicPath ==
    http.request.path \in {"/login", "/health", "/static", "/static/app.css"}

AcceptsHtml == http.request.accept = Some("text/html,application/xhtml+xml")

\* C24: the middleware hands a request for a non-public path to its handler
\* only if the request carries a token that decodes with a non-empty
\* subject naming a stored user; a request it does not hand on is answered
\* with a 302 redirect to /login when its Accept header contains text/html
\* and with a 401 JSON response when it does not.
C24_OnlyAuthenticatedReachHandler ==
    (http.dispatched /\ ~PublicPath) =>
        /\ http.result.call_next => CarriesTokenOfUser
        /\ ~CarriesTokenOfUser => ~http.result.call_next
        /\ ~http.result.call_next =>
              IF AcceptsHtml
              THEN /\ http.result.status_code = 302
                   /\ http.result.location = "/login"
              ELSE /\ http.result.status_code = 401
                   /\ http.result.media_type = "application/json"

\* a request for /data/dashboard with alice's token in the cookie reached
\* the handler with alice attached
C24_Witness ==
    /\ http.dispatched
    /\ http.request.path = "/data/dashboard"
    /\ http.request.cookie = Some("Bearer jwt.alice")
    /\ http.request.authorization = NULL
    /\ users = {"alice"}
    /\ http.result.call_next
    /\ http.result.user = Some("alice")


\* C25: whatever the history, the current streak that the steps, the cardio
\* or the physio reducer returns is not larger than the longest streak it
\* returns with it.
C25_CurrentStreakAtMostLongest ==
    \A fn \in {"get_steps_dashboard_data", "get_cardio_dashboard_data",
               "get_physio_dashboard_data"} :
        Returned(fn) =>
            response.body.current_streak <= response.body.longest_streak.streak

\* the steps reducer returned a current streak of 2 that is also the longest
\* streak of the history
C25_Witness ==
    /\ StepsReturned
    /\ response.body.current_streak = 2
    /\ response.body.longest_streak = [streak |-> 2, end_date |-> <<Yesterday>>]


\* a loop looks only at dates from yesterday back to the day before the
\* earliest stored date
LoopWithinHistory ==
    /\ loop.check_date <= Yesterday
    /\ IF store = {} THEN loop.check_date = Yesterday
       ELSE loop.check_date >= EarliestDate - 1

EarliestBestEnd(dates) ==
    CHOOSE e \in dates :
        /\ \A d \in (e - LongestRun(dates) + 1)..e : d \in dates
        /\ \A f \in dates :
              (\A d \in (f - LongestRun(dates) + 1)..f : d \in dates) => e <= f

\* C27: in what the steps, the cardio and the physio reducer return, the
\* end date of the longest streak is null exactly when the streak is 0; and
\* when several runs have the largest length the end date is the last date
\* of the earliest of them, a later run of the same length leaving it alone.
C27_EndDateOfEarliestLongestRun ==
    /\ \A fn \in {"get_steps_dashboard_data", "get_cardio_dashboard_data",
                  "get_physio_dashboard_data"} :
          Returned(fn) =>
             (response.body.longest_streak.end_date = NULL
                <=> response.body.longest_streak.streak = 0)
    /\ (StepsReturned /\ response.body.longest_streak.streak > 0) =>
          response.body.longest_streak.end_date =
             <<EarliestBestEnd({d \in 0..today : StepsGoalMet(d)})>>
    /\ (CardioReturned /\ response.body.longest_streak.streak > 0) =>
          response.body.longest_streak.end_date =
             <<EarliestBestEnd({d \in 0..today : CardioGoalMet(d)})>>

\* two runs of one day each that meet the steps goal, with a stored day
\* between them that does not: the end date is that of the first run
C27_Witness ==
    /\ StepsReturned
    /\ StepsGoalMet(today - 3)
    /\ HasRow(today - 2) /\ ~StepsGoalMet(today - 2)
    /\ StepsGoalMet(today - 1)
    /\ ~StepsGoalMet(today)
    /\ response.body.longest_streak = [streak |-> 1, end_date |-> <<today - 3>>]


\* the dates of the entries of an answer of the scan
DatesOf(answer) ==
    {ParseIsoDate(answer.missing_days[i].date) :
        i \in 1..Len(answer.missing_days)}

\* what a request with another scope returns on the same stored records
AnswerFor(scope) == get_missing_data(store, today, scope)

CurrentStreakDates == (Yesterday - response.body.current_streak + 1)..Yesterday

\* the dates that a returned longest streak counts: the days up to its end
LongestStreakDates ==
    LET best == response.body.longest_streak
    IN IF best.end_date = NULL THEN {}
       ELSE (best.end_date[1] - best.streak + 1)..best.end_date[1]

CountedDates == CurrentStreakDates \cup LongestStreakDates

\* the dates the scan reports for a scope on the stored records
MissingFor(scope) ==
    IF Raised(AnswerFor(scope)) THEN {} ELSE DatesOf(AnswerFor(scope))

\* C29 as stated: no date that the scan reports as missing for the scope
\* steps, cardio or physio is one of the days counted in the current or the
\* longest streak that the reducer of that metric returns.
C29_MissingNeverCounted ==
    /\ StepsReturned => MissingFor("steps") \cap CountedDates = {}
    /\ CardioReturned => MissingFor("cardio") \cap CountedDates = {}
    /\ PhysioReturned => MissingFor("physio") \cap CountedDates = {}

\* the record of the day has one cardio field NULL and at least 15 minutes
\* in the other
HalfRecordedCardio(d) ==
    /\ HasRow(d)
    /\ \/ /\ RowOn(d).cardio_low_intensity_minutes = NULL
          /\ RowOn(d).cardio_high_intensity_minutes # NULL
          /\ RowOn(d).cardio_high_intensity_minutes[1] >= 15
       \/ /\ RowOn(d).cardio_high_intensity_minutes = NULL
          /\ RowOn(d).cardio_low_intensity_minutes # NULL
          /\ RowOn(d).cardio_low_intensity_minutes[1] >= 15

\* C29 (amended): no date that the scan reports as missing for scope steps
\* is counted in the steps current or longest streak, and the same for
\* physio; a date reported as missing for scope cardio is counted in a
\* cardio streak only if its record has one of the two minute fields NULL
\* and at least 15 minutes in the other, and never if it has no record.
C29_MissingCountedOnlyForHalfRecordedCardio ==
    /\ StepsReturned => MissingFor("steps") \cap CountedDates = {}
    /\ PhysioReturned => MissingFor("physio") \cap CountedDates = {}
    /\ CardioReturned =>
          \A d \in MissingFor("cardio") \cap CountedDates : HalfRecordedCardio(d)

\* yesterday's record has 15 low-intensity minutes and no high-intensity
\* value: the scan reports yesterday for scope cardio and the cardio
\* reducer counts it in both streaks
C29_Witness ==
    /\ CardioReturned
    /\ HasRow(Yesterday)
    /\ RowOn(Yesterday).cardio_low_intensity_minutes = <<15>>
    /\ RowOn(Yesterday).cardio_high_intensity_minutes = NULL
    /\ Yesterday \in MissingFor("cardio")
    /\ Yesterday \in CurrentStreakDates
    /\ Yesterday \in LongestStreakDates


\* some day of the window has a row that holds a step count
WindowHasCount(a, b) ==
    \E d \in a..b : HasRow(d) /\ RowOn(d).steps_actual # NULL

\* what the claim allows as the average of the window a..b
AverageNullOrNonZero(avg, a, b) ==
    /\ avg = NULL <=> (~WindowHasCount(a, b) \/ StepsTotal(a, b) = 0)
    /\ avg # NULL =>
          /\ avg[1].num = StepsTotal(a, b)
          /\ avg[1].den = 7
          /\ avg[1].num # 0

\* C30: each weekly steps average is null exactly when its window of 7 days
\* holds no step count or the counts add up to 0; otherwise it is the sum
\* of the window divided by 7, which is not 0.  The value 0 is never
\* reported.
C30_AverageNullOrNonZero ==
    StepsReturned =>
        /\ AverageNullOrNonZero(response.body.averages.last_7_days,
                                Yesterday - 6, Yesterday)
        /\ AverageNullOrNonZero(response.body.averages.previous_7_days,
                                Yesterday - 13, Yesterday - 7)

\* the last 7 days hold one step count, 0, and the 7 days before hold one
\* count of 1000: the averages are null and 1000/7
C30_Witness ==
    /\ StepsReturned
    /\ HasRow(Yesterday) /\ RowOn(Yesterday).steps_actual = <<0>>
    /\ HasRow(Yesterday - 7) /\ RowOn(Yesterday - 7).steps_actual = <<1000>>
    /\ response.body.averages.last_7_days = NULL
    /\ response.body.averages.previous_7_days = <<[num |-> 1000, den |-> 7]>>

====
